---- MODULE Spec2Model ----
(***************************************************************************)
(* HomeHealth: the task scheduling and recurrence engine of the App        *)
(* component (src/components/TaskScheduler.tsx) with the static template   *)
(* catalogue of src/constants.ts.                                          *)
(*                                                                         *)
(* Time.  A JavaScript Date is a count of milliseconds; here it is a count *)
(* of ticks, TicksPerDay ticks to the day, counted from 1970-01-01 00:00.  *)
(* The local time zone is taken to be UTC without daylight saving, so a    *)
(* local calendar field is a field of the instant itself.  All clock reads *)
(* of one synchronous handler observe the same instant.                    *)
(*                                                                         *)
(* Strings.  A title is a sequence of one-character strings, so that       *)
(* toLowerCase() and includes() are computed, not assumed.                 *)
(***************************************************************************)
EXTENDS Integers, Sequences, FiniteSets, TLC

VARIABLES
    now,        \* the wall clock, what new Date() / Date.now() returns
    tasks,      \* useState<Task[]>: the task collection
    rawTasks,   \* the batch of templates handed to the scheduler in flight
    oracle,     \* what the generative-AI call of the batch in flight does
    prev,       \* the task collection as it was before the last handler ran
    arg,        \* the arguments of the last handler call
    pc,         \* position of the harness: "idle", "awaiting", "effect", "done"
    assets,     \* useState<Asset[]>: the asset collection
    userState,  \* useState<UserState>: isOnboarded, homeType, location, score
    selectedTask,  \* TaskScheduler: the task whose details are open, if any
    editForm,   \* TaskScheduler: the copy of that task the edit form works on
    ops,        \* the number of user events handled so far
    calls,      \* the handleOnboarding calls suspended at their await
    isProcessing   \* useState(false): the onboarding view shows its spinner

\* the state of the screens behind the scheduler
appVars == <<assets, userState, selectedTask, editForm, ops, calls, isProcessing>>

vars == <<now, tasks, rawTasks, oracle, prev, arg, pc,
          assets, userState, selectedTask, editForm, ops, calls, isProcessing>>

(***************************************************************************)
(* Bounds                                                                  *)
(***************************************************************************)
TicksPerDay == 2
MaxBatch == 3
MaxOracleBatch == 2
MaxItems == 2
MaxWait == 1
MaxOps == 3
MaxTicks == 1
MaxOverdue == 10
MaxPastDue == 2
\* the handleOnboarding calls that can be suspended at one time
MaxCalls == 2
\* the user events handled in LiveSpec
MaxLiveOps == 2

(***************************************************************************)
(* JavaScript values                                                       *)
(***************************************************************************)
\* an absent field of a Partial<Task>, or undefined
Undefined == "<undefined>"
\* the time value of an Invalid Date
NaN == -1

\* an absent title (titles are character sequences)
UndefinedTitle == <<Undefined>>
\* an absent id (ids are tuples)
UndefinedId == << >>
\* an absent actualCost
UndefinedCost == 0 - 1

\* truthiness of a string-valued field: undefined and "" are falsy
Falsy(v) == v = Undefined \/ v = ""
\* a || b on string-valued fields
OrElse(a, b) == IF Falsy(a) THEN b ELSE a
\* truthiness of a title
FalsyTitle(s) == s = UndefinedTitle \/ s = << >>

UpperChars == <<"A","B","C","D","E","F","G","H","I","J","K","L","M",
                "N","O","P","Q","R","S","T","U","V","W","X","Y","Z">>
LowerChars == <<"a","b","c","d","e","f","g","h","i","j","k","l","m",
                "n","o","p","q","r","s","t","u","v","w","x","y","z">>

\* String.prototype.toLowerCase, one character
LowerChar(c) ==
    IF \E i \in 1..26 : UpperChars[i] = c
    THEN LowerChars[CHOOSE i \in 1..26 : UpperChars[i] = c]
    ELSE c
\* String.prototype.toLowerCase
toLowerCase(s) == [i \in 1..Len(s) |-> LowerChar(s[i])]
\* String.prototype.includes
includes(s, sub) ==
    \E k \in 0..(Len(s) - Len(sub)) :
        \A j \in 1..Len(sub) : s[k + j] = sub[j]
\* t.title?.toLowerCase().includes(sub): undefined, hence falsy, without title
titleIncludes(title, sub) ==
    title # UndefinedTitle /\ includes(toLowerCase(title), sub)

(***************************************************************************)
(* Date: the proleptic Gregorian calendar of ECMAScript                    *)
(***************************************************************************)
\* days from 1970-01-01 to the first of month m (1..12) of year y, plus d-1
DaysFromCivil(y, m, d) ==
    LET yy  == IF m <= 2 THEN y - 1 ELSE y
        era == yy \div 400
        yoe == yy - era * 400
        mp  == (m + 9) % 12
        doy == (153 * mp + 2) \div 5 + d - 1
        doe == yoe * 365 + yoe \div 4 - yoe \div 100 + doy
    IN  era * 146097 + doe - 719468

\* the calendar date of day number z
CivilFromDays(z) ==
    LET zz  == z + 719468
        era == zz \div 146097
        doe == zz - era * 146097
        yoe == (doe - doe \div 1460 + doe \div 36524 - doe \div 146096) \div 365
        doy == doe - (365 * yoe + yoe \div 4 - yoe \div 100)
        mp  == (5 * doy + 2) \div 153
        d   == doy - (153 * mp + 2) \div 5 + 1
        m   == IF mp < 10 THEN mp + 3 ELSE mp - 9
        y   == yoe + era * 400 + (IF m <= 2 THEN 1 ELSE 0)
    IN  [year |-> y, month |-> m - 1, date |-> d]

\* ECMAScript MakeDay: month is 0-based and may overflow into later years,
\* date may overflow into later months
MakeDay(year, month, date) ==
    DaysFromCivil(year + month \div 12, (month % 12) + 1, 1) + date - 1

Day(t) == t \div TicksPerDay
TimeWithinDay(t) == t % TicksPerDay
MakeDate(day, time) == day * TicksPerDay + time

getFullYear(t) == CivilFromDays(Day(t)).year
getMonth(t) == CivilFromDays(Day(t)).month
getDate(t) == CivilFromDays(Day(t)).date
\* 0 = Sunday .. 6 = Saturday; 1970-01-01 was a Thursday
getDay(t) == (Day(t) + 4) % 7

\* new Date(year, month, date): local midnight
NewDate(year, month, date) == MakeDate(MakeDay(year, month, date), 0)
setDate(t, date) ==
    MakeDate(MakeDay(getFullYear(t), getMonth(t), date), TimeWithinDay(t))
setMonth(t, month) ==
    MakeDate(MakeDay(getFullYear(t), month, getDate(t)), TimeWithinDay(t))
setFullYear(t, year) ==
    MakeDate(MakeDay(year, getMonth(t), getDate(t)), TimeWithinDay(t))

\* Date.prototype.toISOString: the instant written out to the millisecond
toISOString(t) == [kind |-> "iso", t |-> t]
\* new Date(string).getTime(): NaN unless the string is a date-time
DateParse(s) == IF s.kind = "iso" THEN s.t ELSE NaN
isNaN(x) == x = NaN
\* strings that are no date: undefined, "" and text that does not parse
NoDate == [kind |-> "undefined", t |-> 0]
EmptyDate == [kind |-> "empty", t |-> 0]
GarbageDate == [kind |-> "text", t |-> 0]
\* !finalDate
FalsyDate(s) == s.kind \in {"undefined", "empty"}

(***************************************************************************)
(* Task and Partial<Task>: one record shape, absent fields are undefined   *)
(***************************************************************************)
Template(title, description, importance, priority, category, recurring, season) ==
    [id |-> UndefinedId, title |-> title, description |-> description,
     importance |-> importance, dueDate |-> NoDate, status |-> Undefined,
     priority |-> priority, category |-> category, assetId |-> Undefined,
     recurring |-> recurring, season |-> season,
     actualCost |-> UndefinedCost, completedDate |-> NoDate]

(***************************************************************************)
(* The template catalogue                                                  *)
(***************************************************************************)
DEFAULT_TASKS_CONDO ==
  << Template(<<"C","h","e","c","k"," ","H","V","A","C"," ","F","i","l","t","e","r">>,
     "Inspect and replace if dirty",
     "A dirty filter restricts airflow, increasing energy costs and potentially damaging your HVAC unit.",
     "HIGH", "SYSTEMS", TRUE, Undefined),
     Template(<<"T","e","s","t"," ","S","m","o","k","e"," ","A","l","a","r","m","s">>,
     "Press test button on all alarms",
     "Ensures alarms are functional in case of emergency. Batteries can fail without warning.",
     "HIGH", "SAFETY", TRUE, Undefined),
     Template(<<"I","n","s","p","e","c","t"," ","D","r","y","e","r"," ","V","e","n","t">>,
     "Clear lint from external vent",
     "Lint buildup is a leading cause of household fires and reduces dryer efficiency.",
     "MEDIUM", "SAFETY", TRUE, Undefined) >>

DEFAULT_TASKS_HOUSE ==
  DEFAULT_TASKS_CONDO \o
  << Template(<<"C","l","e","a","n"," ","G","u","t","t","e","r","s">>,
     "Remove leaves and debris",
     "Clogged gutters cause water to overflow, leading to foundation damage and roof rot.",
     "MEDIUM", "EXTERIOR", TRUE, Undefined),
     Template(<<"I","n","s","p","e","c","t"," ","R","o","o","f">>,
     "Check for missing shingles or damage",
     "Catching small leaks early prevents expensive water damage to ceilings and insulation.",
     "HIGH", "EXTERIOR", TRUE, Undefined),
     Template(<<"W","i","n","t","e","r","i","z","e"," ","H","o","s","e"," ","B","i","b","s">>,
     "Drain outdoor faucets",
     "Water left in pipes can freeze and burst, causing significant flooding and plumbing damage.",
     "HIGH", "PLUMBING", TRUE, Undefined),
     Template(<<"L","u","b","r","i","c","a","t","e"," ","G","a","r","a","g","e"," ","D","o","o","r"," ","T","r","a","c","k","s">>,
     "Lubricate tracks - once per year",
     "Reduces noise and strain on the opener motor, extending its lifespan.",
     "MEDIUM", "SYSTEMS", TRUE, Undefined),
     Template(<<"C","h","a","n","g","e"," ","F","u","r","n","a","c","e"," ","F","i","l","t","e","r">>,
     "Change filter - once every 3 months",
     "Maintains air quality and system efficiency.",
     "HIGH", "SYSTEMS", TRUE, Undefined),
     Template(<<"B","r","i","n","g"," ","i","n"," ","G","a","r","d","e","n"," ","H","o","s","e","s">>,
     "Bring back and garage hoses into house",
     "Prevents rubber from cracking due to freezing temperatures.",
     "MEDIUM", "OUTDOOR", FALSE, "Late Fall"),
     Template(<<"C","l","e","a","n"," ","O","u","t","s","i","d","e"," ","W","i","n","d","o","w","s"," ","(","F","a","l","l",")">>,
     "Clean outside windows",
     "Maximizes natural light during darker winter months.",
     "LOW", "EXTERIOR", FALSE, "Late Fall"),
     Template(<<"R","e","m","o","v","e"," ","D","e","a","d"," ","L","e","a","v","e","s">>,
     "Remove dead leaves from lawn as needed",
     "Thick layers of leaves can smother grass and promote mold growth.",
     "MEDIUM", "OUTDOOR", FALSE, "Late Fall"),
     Template(<<"C","h","e","c","k"," ","W","i","n","d","o","w"," ","S","e","a","l","s">>,
     "Check for drafts and seal gaps",
     "Prevents heat loss, lowering heating bills.",
     "MEDIUM", "INTERIOR", FALSE, "Late Fall"),
     Template(<<"S","e","r","v","i","c","e"," ","L","a","w","n"," ","M","o","w","e","r">>,
     "Change oil in lawn mower, empty gas",
     "Old gas can gum up the carburetor, preventing the mower from starting in spring.",
     "MEDIUM", "OUTDOOR", FALSE, "Late Fall"),
     Template(<<"S","t","a","b","i","l","i","z","e"," ","F","u","e","l">>,
     "Add fuel stabilizer to gas cans",
     "Keeps fuel fresh for up to 24 months.",
     "MEDIUM", "OUTDOOR", FALSE, "Late Fall"),
     Template(<<"W","i","n","t","e","r","i","z","e"," ","A","/","C">>,
     "Cover air conditioner, turn off circuit breaker",
     "Protects the unit from snow, ice, and debris damage.",
     "HIGH", "SYSTEMS", FALSE, "Late Fall"),
     Template(<<"S","t","o","r","e"," ","O","u","t","d","o","o","r"," ","I","t","e","m","s">>,
     "Store outside furniture and carpet",
     "Extends the life of your furniture by protecting it from harsh weather.",
     "LOW", "OUTDOOR", FALSE, "Late Fall"),
     Template(<<"I","n","s","t","a","l","l"," ","G","a","r","d","e","n"," ","H","o","s","e","s">>,
     "Install back and garage hoses",
     "Prepare for watering lawn and garden.",
     "MEDIUM", "OUTDOOR", FALSE, "Late Spring"),
     Template(<<"C","l","e","a","n"," ","E","a","v","e","s","t","r","o","u","g","h","s">>,
     "Clean out eavestrough corners",
     "Ensures spring rains drain away from your foundation.",
     "HIGH", "EXTERIOR", FALSE, "Late Spring"),
     Template(<<"C","l","e","a","n"," ","O","u","t","s","i","d","e"," ","W","i","n","d","o","w","s"," ","(","S","p","r","i","n","g",")">>,
     "Clean outside windows",
     "Removes winter grime and salt.",
     "LOW", "EXTERIOR", FALSE, "Late Spring"),
     Template(<<"C","l","e","a","n"," ","H","V","A","C"," ","S","c","r","e","e","n">>,
     "Clean outside screen for HVAC",
     "Ensures proper airflow for A/C efficiency.",
     "MEDIUM", "SYSTEMS", FALSE, "Late Spring"),
     Template(<<"S","e","r","v","i","c","e"," ","S","n","o","w","b","l","o","w","e","r">>,
     "Change oil in snowblower, empty gas",
     "Prepare machine for long-term storage.",
     "MEDIUM", "OUTDOOR", FALSE, "Late Spring"),
     Template(<<"P","r","e","p","a","r","e"," ","A","/","C">>,
     "Uncover air conditioner, turn on circuit breaker",
     "Get ready for summer cooling.",
     "HIGH", "SYSTEMS", FALSE, "Late Spring") >>

\* keyed by the value of the AssetCategory member
ASSET_TASK_MAP ==
  ("Dishwasher" :>
    << Template(<<"C","l","e","a","n"," ","D","i","s","h","w","a","s","h","e","r"," ","F","i","l","t","e","r">>,
       "Remove and rinse filter at bottom of tub",
       "Prevents food buildup which causes odors and poor cleaning performance.",
       "MEDIUM", "APPLIANCE", FALSE, Undefined),
       Template(<<"C","h","e","c","k"," ","D","o","o","r"," ","S","e","a","l","s">>,
       "Wipe down seals and check for cracks",
       "Ensures a watertight seal to prevent leaks.",
       "LOW", "APPLIANCE", FALSE, Undefined) >>) @@
  ("Refrigerator" :>
    << Template(<<"C","l","e","a","n"," ","C","o","i","l","s">>,
       "Vacuum dust from coils behind/under fridge",
       "Dusty coils force the compressor to work harder, shortening its life and increasing energy bills.",
       "MEDIUM", "APPLIANCE", FALSE, Undefined),
       Template(<<"R","e","p","l","a","c","e"," ","W","a","t","e","r"," ","F","i","l","t","e","r">>,
       "Replace internal water filter",
       "Ensures clean drinking water and prevents mineral buildup.",
       "MEDIUM", "APPLIANCE", FALSE, Undefined) >>) @@
  ("HVAC" :>
    << Template(<<"R","e","p","l","a","c","e"," ","A","i","r"," ","F","i","l","t","e","r">>,
       "Replace main unit filter",
       "Critical for system airflow and air quality.",
       "HIGH", "SYSTEMS", FALSE, Undefined),
       Template(<<"P","r","o","f","e","s","s","i","o","n","a","l"," ","T","u","n","e","-","u","p">>,
       "Schedule annual maintenance",
       "Identifies potential failures before extreme weather hits.",
       "MEDIUM", "SYSTEMS", FALSE, Undefined) >>) @@
  ("Smoke Alarm" :>
    << Template(<<"R","e","p","l","a","c","e"," ","B","a","t","t","e","r","i","e","s">>,
       "Change backup batteries",
       "Ensures operation during power outages.",
       "HIGH", "SAFETY", FALSE, Undefined) >>) @@
  ("Roof" :>
    << >>) @@
  ("Gutters" :>
    << >>) @@
  ("Hose Bibs" :>
    << >>) @@
  ("Other" :>
    << >>)

(***************************************************************************)
(* Fallback scheduler                                                      *)
(***************************************************************************)
smoke == <<"s","m","o","k","e">>
UntitledTask == <<"U","n","t","i","t","l","e","d"," ","T","a","s","k">>
Untitled == <<"U","n","t","i","t","l","e","d">>

\* `task-${Date.now()}-${n}`: the text is one-to-one with the pair
TaskId(time, n) == <<"task", time, n>>
\* `task-recurring-${Date.now()}`
RecurringId(time) == <<"task-recurring", time>>

\* isSafetyFirst with the || taken before the &&
isSafetyFirstSeasonFirst(t) ==
    (titleIncludes(t.title, smoke) \/ t.priority = "HIGH") /\ Falsy(t.season)

\* 1. Safety First: title mentions smoke, or HIGH priority and no season
isSafetyFirst(t) ==
    titleIncludes(t.title, smoke) \/ (t.priority = "HIGH" /\ Falsy(t.season))

\* dueDate.setDate(now.getDate() + 3), dueDate being a fresh new Date()
safetyDueDate(nowv) == setDate(nowv, getDate(nowv) + 3)

\* seasonalDueDate without the 30 days of grace
seasonalDueDateNoGrace(t, nowv) ==
    LET currentYear == getFullYear(nowv)
        targetMonth == IF t.season = "Late Fall" THEN 9
                       ELSE IF t.season = "Late Spring" THEN 4
                       ELSE 0
        dueDate     == NewDate(currentYear, targetMonth, 15)
    IN  IF nowv > dueDate
        THEN setFullYear(dueDate, currentYear + 1)
        ELSE dueDate

\* 2. Seasonal Logic: the 15th of the target month, next year once now is
\* more than 30 days past it
seasonalDueDate(t, nowv) ==
    LET currentYear == getFullYear(nowv)
        targetMonth == IF t.season = "Late Fall" THEN 9
                       ELSE IF t.season = "Late Spring" THEN 4
                       ELSE 0
        targetDay   == 15
        dueDate     == NewDate(currentYear, targetMonth, targetDay)
    IN  IF nowv > dueDate + 30 * TicksPerDay
        THEN setFullYear(dueDate, currentYear + 1)
        ELSE dueDate

\* generalDueDate that does not add the index to the delay
generalDueDateNoSpread(index, nowv) ==
    LET dueDate == setDate(nowv, getDate(nowv) + 2 * 7)
        daysUntilSaturday == (6 - getDay(dueDate) + 7) % 7
    IN  setDate(dueDate, getDate(dueDate) + daysUntilSaturday)

\* 3. General Maintenance: 2 + index weeks out, moved on to a Saturday
generalDueDate(index, nowv) ==
    LET generalTaskDelayWeeks == 2
        weeksToAdd == generalTaskDelayWeeks + index
        dueDate    == setDate(nowv, getDate(nowv) + weeksToAdd * 7)
        day        == getDay(dueDate)
        daysUntilSaturday == (6 - day + 7) % 7
    IN  setDate(dueDate, getDate(dueDate) + daysUntilSaturday)

\* fallbackDueDate with the seasonal rule tried before the safety rule
fallbackDueDateSeasonFirst(t, index, nowv) ==
    IF ~Falsy(t.season) THEN seasonalDueDate(t, nowv)
    ELSE IF isSafetyFirst(t) THEN safetyDueDate(nowv)
    ELSE generalDueDate(index, nowv)

\* the due date of the template at (0-based) index of the batch
fallbackDueDate(t, index, nowv) ==
    IF isSafetyFirst(t) THEN safetyDueDate(nowv)
    ELSE IF ~Falsy(t.season) THEN seasonalDueDate(t, nowv)
    ELSE generalDueDate(index, nowv)

distributeTasksFallback(newTasks, startIdIndex, nowv) ==
    [i \in 1..Len(newTasks) |->
        LET t == newTasks[i]
            index == i - 1
        IN  [t EXCEPT
                !.id = IF t.id # UndefinedId THEN t.id
                       ELSE TaskId(nowv, startIdIndex + index),
                !.status = "PENDING",
                !.dueDate = toISOString(fallbackDueDate(t, index, nowv)),
                !.title = IF FalsyTitle(t.title) THEN UntitledTask ELSE t.title,
                !.description = OrElse(t.description, ""),
                !.priority = OrElse(t.priority, "MEDIUM"),
                !.category = OrElse(t.category, "GENERAL")]]

(***************************************************************************)
(* AI-assisted scheduler                                                   *)
(***************************************************************************)
\* What the generateContent call does:
\*   "throw"   the call rejects (network, quota, missing key)
\*   "notext"  response.text is empty or undefined
\*   "notjson" JSON.parse throws
\*   "object", "null", "number", "string"  JSON that is not an array
\*   "array"   a JSON array; items holds its elements
OracleItem(title, dueDate, category) ==
    [isNull |-> FALSE, title |-> title, dueDate |-> dueDate, category |-> category]
\* a null element of the array
NullItem ==
    [isNull |-> TRUE, title |-> UndefinedTitle, dueDate |-> NoDate, category |-> Undefined]
OracleReply(kind, items) == [kind |-> kind, items |-> items]
NoOracle == OracleReply("none", << >>)

\* scheduledItems.find(i => i.title === t.title): the index of the first
\* match, 0 for undefined
findItem(items, title) ==
    IF \E i \in 1..Len(items) : ~items[i].isNull /\ items[i].title = title
    THEN CHOOSE i \in 1..Len(items) :
            /\ ~items[i].isNull /\ items[i].title = title
            /\ \A j \in 1..(i - 1) : items[j].isNull \/ items[j].title # title
    ELSE 0

\* the callback i.title throws a TypeError on a null element that find
\* visits, which it does unless an earlier element matched
findThrows(items, title) ==
    \E i \in 1..Len(items) :
        /\ items[i].isNull
        /\ \A j \in 1..(i - 1) : items[j].isNull \/ items[j].title # title

\* anything that throws inside the try block
smartScheduleThrows(rawTasks_, reply) ==
    \/ reply.kind \in {"throw", "notext", "notjson"}
    \/ reply.kind \in {"object", "null", "number", "string"} /\ Len(rawTasks_) > 0
    \/ reply.kind = "array" /\ \E k \in 1..Len(rawTasks_) :
                                   findThrows(reply.items, rawTasks_[k].title)

\* mergeItem whose fallback date is the one of the template's place in the
\* whole batch
mergeItemBatchPlace(t, index, items, nowv) ==
    LET found == findItem(items, t.title)
        aiDate == IF found = 0 THEN NoDate ELSE items[found].dueDate
        aiCategory == IF found = 0 THEN Undefined ELSE items[found].category
        finalDate ==
            IF FalsyDate(aiDate) \/ isNaN(DateParse(aiDate))
            THEN toISOString(fallbackDueDate(t, index, nowv))
            ELSE aiDate
    IN  [t EXCEPT
            !.id = TaskId(nowv, index),
            !.status = "PENDING",
            !.dueDate = finalDate,
            !.title = IF FalsyTitle(t.title) THEN Untitled ELSE t.title,
            !.description = OrElse(t.description, ""),
            !.priority = OrElse(t.priority, "MEDIUM"),
            !.category = OrElse(aiCategory, OrElse(t.category, "GENERAL"))]

\* Merge AI dates with full task objects: one template
mergeItem(t, index, items, nowv) ==
    LET found == findItem(items, t.title)
        aiDate == IF found = 0 THEN NoDate ELSE items[found].dueDate
        aiCategory == IF found = 0 THEN Undefined ELSE items[found].category
        finalCategory == OrElse(aiCategory, OrElse(t.category, "GENERAL"))
        finalDate ==
            IF FalsyDate(aiDate) \/ isNaN(DateParse(aiDate))
            THEN distributeTasksFallback(<<t>>, index, nowv)[1].dueDate
            ELSE aiDate
    IN  [t EXCEPT
            !.id = TaskId(nowv, index),
            !.status = "PENDING",
            !.dueDate = finalDate,
            !.title = IF FalsyTitle(t.title) THEN Untitled ELSE t.title,
            !.description = OrElse(t.description, ""),
            !.priority = OrElse(t.priority, "MEDIUM"),
            !.category = finalCategory]

\* generateSmartSchedule whose catch block resolves with no tasks
generateSmartScheduleEmptyCatch(rawTasks_, reply, nowv) ==
    IF smartScheduleThrows(rawTasks_, reply)
    THEN << >>
    ELSE [i \in 1..Len(rawTasks_) |->
            mergeItem(rawTasks_[i], i - 1, reply.items, nowv)]

\* generateSmartSchedule whose catch block schedules the templates one by one
generateSmartScheduleItemCatch(rawTasks_, reply, nowv) ==
    IF smartScheduleThrows(rawTasks_, reply)
    THEN [i \in 1..Len(rawTasks_) |->
            distributeTasksFallback(<<rawTasks_[i]>>, i - 1, nowv)[1]]
    ELSE [i \in 1..Len(rawTasks_) |->
            mergeItem(rawTasks_[i], i - 1, reply.items, nowv)]

\* the value generateSmartSchedule resolves with, the reply being given
generateSmartSchedule(rawTasks_, reply, nowv) ==
    IF smartScheduleThrows(rawTasks_, reply)
    THEN distributeTasksFallback(rawTasks_, 0, nowv)
    ELSE [i \in 1..Len(rawTasks_) |->
            mergeItem(rawTasks_[i], i - 1, reply.items, nowv)]

(***************************************************************************)
(* Task lifecycle: completion and recurrence                               *)
(***************************************************************************)
filter == <<"f","i","l","t","e","r">>
smokeAlarm == <<"s","m","o","k","e"," ","a","l","a","r","m">>
gutters == <<"g","u","t","t","e","r","s">>
hvac == <<"h","v","a","c">>

\* monthsToAdd that looks for gutters and hvac before it looks for filter
monthsToAddHvacFirst(currentTask) ==
    LET titleLower == toLowerCase(currentTask.title)
    IN  IF includes(titleLower, gutters) \/ includes(titleLower, hvac) THEN 6
        ELSE IF includes(titleLower, filter) THEN 3
        ELSE IF includes(titleLower, smokeAlarm) THEN 6
        ELSE 12

\* monthsToAdd without the smoke alarm rule
monthsToAddNoAlarm(currentTask) ==
    LET titleLower == toLowerCase(currentTask.title)
    IN  IF includes(titleLower, filter) THEN 3
        ELSE IF includes(titleLower, gutters) \/ includes(titleLower, hvac) THEN 6
        ELSE 12

\* the recurrence interval, in months, of a completed task
monthsToAdd(currentTask) ==
    LET titleLower == toLowerCase(currentTask.title)
    IN  IF includes(titleLower, filter) THEN 3
        ELSE IF includes(titleLower, smokeAlarm) THEN 6
        ELSE IF includes(titleLower, gutters) \/ includes(titleLower, hvac) THEN 6
        ELSE IF ~Falsy(currentTask.season) THEN 12
        ELSE 12

\* nextDueDate.setMonth(nextDueDate.getMonth() + monthsToAdd)
addMonths(oldDueDate, months) == setMonth(oldDueDate, getMonth(oldDueDate) + months)

\* if (nextDueDate < new Date()) { setFullYear(this year); if still earlier,
\* setFullYear(next year) }
reanchor(nextDueDate, nowv) ==
    IF nextDueDate < nowv
    THEN LET thisYear == setFullYear(nextDueDate, getFullYear(nowv))
         IN  IF thisYear < nowv
             THEN setFullYear(thisYear, getFullYear(nowv) + 1)
             ELSE thisYear
    ELSE nextDueDate

\* the due date of the recurrence of currentTask, completed at nowv
nextDueDateOf(currentTask, nowv) ==
    reanchor(addMonths(DateParse(currentTask.dueDate), monthsToAdd(currentTask)), nowv)

\* prev.findIndex(t => t.id === id), 1-based; 0 stands for -1
findIndex(list, id) ==
    IF \E i \in 1..Len(list) : list[i].id = id
    THEN CHOOSE i \in 1..Len(list) :
            list[i].id = id /\ \A j \in 1..(i - 1) : list[j].id # id
    ELSE 0

\* handleCompleteTask without the test of currentTask.recurring
handleCompleteTaskAlwaysSpawn(list, id, cost, nowv) ==
    LET taskIndex == findIndex(list, id)
    IN  IF taskIndex = 0 THEN list
        ELSE
        LET currentTask == list[taskIndex]
            completedTask == [currentTask EXCEPT
                                 !.status = "COMPLETED",
                                 !.actualCost = cost,
                                 !.completedDate = toISOString(nowv)]
            newTask == [currentTask EXCEPT
                           !.id = RecurringId(nowv),
                           !.status = "PENDING",
                           !.dueDate = toISOString(nextDueDateOf(currentTask, nowv)),
                           !.actualCost = UndefinedCost,
                           !.completedDate = NoDate]
        IN  Append([list EXCEPT ![taskIndex] = completedTask], newTask)

\* handleCompleteTask that does not record the cost
handleCompleteTaskNoCost(list, id, cost, nowv) ==
    LET taskIndex == findIndex(list, id)
    IN  IF taskIndex = 0 THEN list
        ELSE
        LET currentTask == list[taskIndex]
            completedTask == [currentTask EXCEPT
                                 !.status = "COMPLETED",
                                 !.completedDate = toISOString(nowv)]
            newTask == [currentTask EXCEPT
                           !.id = RecurringId(nowv),
                           !.status = "PENDING",
                           !.dueDate = toISOString(nextDueDateOf(currentTask, nowv)),
                           !.actualCost = UndefinedCost,
                           !.completedDate = NoDate]
        IN  IF currentTask.recurring
            THEN Append([list EXCEPT ![taskIndex] = completedTask], newTask)
            ELSE [list EXCEPT ![taskIndex] = completedTask]

\* the state updater handleCompleteTask hands to setTasks
handleCompleteTask(list, id, cost, nowv) ==
    LET taskIndex == findIndex(list, id)
    IN  IF taskIndex = 0 THEN list
        ELSE
        LET currentTask == list[taskIndex]
            completedTask == [currentTask EXCEPT
                                 !.status = "COMPLETED",
                                 !.actualCost = cost,
                                 !.completedDate = toISOString(nowv)]
            newTaskList == [list EXCEPT ![taskIndex] = completedTask]
            newTask == [currentTask EXCEPT
                           !.id = RecurringId(nowv),
                           !.status = "PENDING",
                           !.dueDate = toISOString(nextDueDateOf(currentTask, nowv)),
                           !.actualCost = UndefinedCost,
                           !.completedDate = NoDate]
        IN  IF currentTask.recurring
            THEN Append(newTaskList, newTask)
            ELSE newTaskList

(***************************************************************************)
(* Assets and the handlers of the App component                            *)
(***************************************************************************)
\* an Asset, by the fields the handlers read
Asset(id, category) == [id |-> id, category |-> category]

\* AssetManager.handleSubmit: const assetId = Date.now().toString()
AssetId(time) == ToString(time)
\* AssetManager.saveFeatureAndTasks: `feature-${Date.now()}`
FeatureId(time) == "feature-" \o ToString(time)
\* `${assetId}-ai-${idx}` for the asset submitted at instant time
AiTaskId(time, idx) == <<"ai", time, idx>>
\* `${assetId}-task-${idx}` for the feature saved at instant time
FeatureTaskId(time, idx) == <<"feature-task", time, idx>>

\* list.filter(t => t.assetId === id)
tasksOfAsset(list, id) == SelectSeq(list, LAMBDA t : t.assetId = id)

\* handleAddAsset that does not stamp the templates with the asset's id
handleAddAssetUnlinked(list, asset, nowv) ==
    IF Len(tasksOfAsset(list, asset.id)) = 0
    THEN list \o distributeTasksFallback(ASSET_TASK_MAP[asset.category], Len(list), nowv)
    ELSE list

\* what handleAddAsset makes of the task collection
handleAddAsset(list, asset, nowv) ==
    LET templates == ASSET_TASK_MAP[asset.category]
        raw == [i \in 1..Len(templates) |->
                    [templates[i] EXCEPT !.assetId = asset.id]]
    IN  IF Len(tasksOfAsset(list, asset.id)) = 0
        THEN list \o distributeTasksFallback(raw, Len(list), nowv)
        ELSE list

\* handleAddTasks
handleAddTasks(list, newTasks) == list \o newTasks

\* handleDeleteAsset on the assets: prev.filter(a => a.id !== id)
deleteAssetFrom(as, id) == SelectSeq(as, LAMBDA a : a.id # id)

\* handleDeleteAsset that leaves the tasks alone
handleDeleteAssetKeepTasks(list, id) == list

\* handleDeleteAsset on the tasks: prev.filter(t => t.assetId !== id)
handleDeleteAsset(list, id) == SelectSeq(list, LAMBDA t : t.assetId # id)

\* handleUpdateTask that appends the task when no id matches
handleUpdateTaskUpsert(list, updatedTask) ==
    IF \E i \in 1..Len(list) : list[i].id = updatedTask.id
    THEN [i \in 1..Len(list) |->
            IF list[i].id = updatedTask.id THEN updatedTask ELSE list[i]]
    ELSE Append(list, updatedTask)

\* handleUpdateTask: prev.map(t => t.id === updatedTask.id ? updatedTask : t)
handleUpdateTask(list, updatedTask) ==
    [i \in 1..Len(list) |->
        IF list[i].id = updatedTask.id THEN updatedTask ELSE list[i]]

\* handleDeleteTask: prev.filter(t => t.id !== id)
handleDeleteTask(list, id) == SelectSeq(list, LAMBDA t : t.id # id)

\* handleDeleteAllTasks
handleDeleteAllTasks == << >>

(***************************************************************************)
(* The health score                                                        *)
(***************************************************************************)
Deduction(reason, points) == [reason |-> reason, points |-> points]

\* tasks.filter(t => t.status === 'OVERDUE').length
overdueCount(list) == Len(SelectSeq(list, LAMBDA t : t.status = "OVERDUE"))
\* assets.some(a => a.category === category)
hasAsset(as, category) == \E i \in 1..Len(as) : as[i].category = category

\* deductions with one entry for every OVERDUE task instead of one for all
deductionsOfPerTask(list, as, user) ==
    LET n == overdueCount(list)
        overdue == [k \in 1..n |-> Deduction("1 Overdue Task", 10)]
        smokeAlarmMissing ==
            IF user.isOnboarded /\ ~hasAsset(as, "Smoke Alarm")
            THEN << Deduction("No Smoke Alarm Tracked", 10) >>
            ELSE << >>
        hvacMissing ==
            IF user.isOnboarded /\ user.homeType = "HOUSE" /\ ~hasAsset(as, "HVAC")
            THEN << Deduction("No HVAC System Tracked", 5) >>
            ELSE << >>
    IN  overdue \o smokeAlarmMissing \o hvacMissing

\* the deductions of getScoreBreakdown, in the order they are pushed
deductionsOf(list, as, user) ==
    LET n == overdueCount(list)
        overdue ==
            IF n > 0
            THEN << Deduction(ToString(n) \o " Overdue Task"
                                \o (IF n > 1 THEN "s" ELSE ""), n * 10) >>
            ELSE << >>
        smokeAlarmMissing ==
            IF user.isOnboarded /\ ~hasAsset(as, "Smoke Alarm")
            THEN << Deduction("No Smoke Alarm Tracked", 10) >>
            ELSE << >>
        hvacMissing ==
            IF user.isOnboarded /\ user.homeType = "HOUSE" /\ ~hasAsset(as, "HVAC")
            THEN << Deduction("No HVAC System Tracked", 5) >>
            ELSE << >>
    IN  overdue \o smokeAlarmMissing \o hvacMissing

\* the sum of the points of a list of deductions
RECURSIVE pointsOf(_)
pointsOf(ds) == IF ds = << >> THEN 0 ELSE Head(ds).points + pointsOf(Tail(ds))

\* Math.max
Max(a, b) == IF a >= b THEN a ELSE b

\* getScoreBreakdown without Math.max
getScoreBreakdownNoFloor(list, as, user) ==
    [score |-> 100 - pointsOf(deductionsOf(list, as, user)),
     deductions |-> deductionsOf(list, as, user)]

\* getScoreBreakdown: currentScore starts at 100 and every pushed deduction
\* is subtracted from it
getScoreBreakdown(list, as, user) ==
    [score |-> Max(0, 100 - pointsOf(deductionsOf(list, as, user))),
     deductions |-> deductionsOf(list, as, user)]

\* a score effect that never stores the score
scoreEffectNever(list, as, user) == user

\* the score effect: the state after the effect that follows a render has run
scoreEffect(list, as, user) ==
    IF user.isOnboarded
    THEN [user EXCEPT !.score = getScoreBreakdown(list, as, user).score]
    ELSE user

(***************************************************************************)
(* Inputs                                                                  *)
(***************************************************************************)
\* an instant: tick `time' of the day year-month-date, month 1..12
At(year, month, date, time) == MakeDate(DaysFromCivil(year, month, date), time)

\* every sequence over S of length at most n
RECURSIVE SeqsUpTo(_, _)
SeqsUpTo(S, n) ==
    IF n = 0 THEN { << >> }
    ELSE LET shorter == SeqsUpTo(S, n - 1)
         IN  shorter \cup { Append(s, x) : s \in shorter, x \in S }

\* a template whose title mentions smoke in capitals and that has a season
SmokeSeasonal ==
    Template(<<"S","M","O","K","E"," ","D","e","t","e","c","t","o","r"," ","C","h","e","c","k">>,
             "Vacuum the sensor", Undefined, "LOW", Undefined, FALSE, "Late Fall")
\* a template with nothing but a description
Bare ==
    Template(UndefinedTitle, Undefined, Undefined, Undefined, Undefined, FALSE, Undefined)

\* the templates the fallback scheduler is exercised with
FallbackPool ==
    { DEFAULT_TASKS_HOUSE[2],     \* Test Smoke Alarms: HIGH, no season
      DEFAULT_TASKS_HOUSE[8],     \* Change Furnace Filter: HIGH, no season
      DEFAULT_TASKS_HOUSE[15],    \* Winterize A/C: HIGH, Late Fall
      DEFAULT_TASKS_HOUSE[17],    \* Install Garden Hoses: MEDIUM, Late Spring
      DEFAULT_TASKS_HOUSE[3],     \* Inspect Dryer Vent: MEDIUM, no season
      ASSET_TASK_MAP["Refrigerator"][1],   \* Clean Coils: MEDIUM, no season
      SmokeSeasonal, Bare }

\* clock values: every weekday, ends of months and of years, a leap day, and
\* the days around the seasonal anchors and their 30-day windows
FallbackDays ==
    { <<2025, 1, d>> : d \in 26..31 } \cup
    { <<2025, 2, 1>>, <<2024, 2, 27>>, <<2024, 12, 30>>,
      <<2025, 3, 1>>, <<2025, 5, 15>>, <<2025, 6, 14>>, <<2025, 6, 15>>,
      <<2025, 10, 20>>, <<2025, 11, 14>>, <<2025, 11, 15>>, <<2025, 12, 1>> }
FallbackNows ==
    { At(d[1], d[2], d[3], time) : d \in FallbackDays, time \in 0..(TicksPerDay - 1) }

\* useState<UserState>(...) as the App component constructs it
InitialUserState ==
    [isOnboarded |-> FALSE, homeType |-> "null", location |-> "", score |-> 100]
\* useState<Partial<Task>>({}): a form with every field absent
EmptyForm ==
    Template(UndefinedTitle, Undefined, Undefined, Undefined, Undefined, FALSE, Undefined)
\* useState<Task | null>(null); an open task is held as a one-element sequence
NoSelection == << >>
\* the screens as they are constructed
AppAtStart ==
    /\ assets = << >>
    /\ userState = InitialUserState
    /\ selectedTask = NoSelection
    /\ editForm = EmptyForm
    /\ ops = 0
    /\ calls = << >>
    /\ isProcessing = FALSE

\* no handler has been called yet
NoArg == [op |-> "none", id |-> UndefinedId, assetId |-> Undefined,
          cost |-> UndefinedCost, homeType |-> "null", location |-> "", at |-> 0]

(***************************************************************************)
(* FallbackSpec: distributeTasksFallback applied to a batch                *)
(***************************************************************************)
FallbackInit ==
    /\ now \in FallbackNows
    /\ rawTasks \in SeqsUpTo(FallbackPool, MaxBatch)
    /\ tasks = << >>
    /\ oracle = NoOracle
    /\ prev = << >>
    /\ arg = NoArg
    /\ pc = "idle"
    /\ AppAtStart

Fallback ==
    /\ pc = "idle"
    /\ tasks' = distributeTasksFallback(rawTasks, 0, now)
    /\ pc' = "done"
    /\ UNCHANGED <<now, rawTasks, oracle, prev, arg>>
    /\ UNCHANGED appVars

FallbackNext == Fallback

FallbackSpec == FallbackInit /\ [][FallbackNext]_vars

(***************************************************************************)
(* OracleSpec: generateSmartSchedule, from the request to its resolution   *)
(***************************************************************************)
\* the templates the AI-assisted scheduler is exercised with
OraclePool ==
    { DEFAULT_TASKS_HOUSE[3],           \* Inspect Dryer Vent: general
      ASSET_TASK_MAP["Refrigerator"][1], \* Clean Coils: general
      DEFAULT_TASKS_HOUSE[2],           \* Test Smoke Alarms: safety
      DEFAULT_TASKS_HOUSE[15] }         \* Winterize A/C: seasonal

OracleNows == { At(2025, 1, 29, 1), At(2025, 10, 20, 0) }

\* the elements a reply array is made of: a title of the batch or not, a date
\* that is absent, empty, no date, valid and ahead, or valid and long past
ItemTitles == { DEFAULT_TASKS_HOUSE[3].title, ASSET_TASK_MAP["Refrigerator"][1].title }
ItemDates ==
    { NoDate, EmptyDate, GarbageDate,
      toISOString(At(2026, 7, 4, 0)), toISOString(At(2020, 1, 1, 0)) }
ItemCategories == { Undefined, "INTERIOR" }
OracleItems ==
    { OracleItem(ti, d, c) : ti \in ItemTitles, d \in ItemDates, c \in ItemCategories }
        \cup { NullItem }
OracleReplies ==
    { OracleReply(k, << >>) :
        k \in {"throw", "notext", "notjson", "object", "null", "number", "string"} }
        \cup { OracleReply("array", items) : items \in SeqsUpTo(OracleItems, MaxItems) }

OracleInit ==
    /\ now \in OracleNows
    /\ rawTasks \in SeqsUpTo(OraclePool, MaxOracleBatch)
    /\ tasks = << >>
    /\ oracle = NoOracle
    /\ prev = << >>
    /\ arg = NoArg
    /\ pc = "idle"
    /\ AppAtStart

\* generateSmartSchedule is called and suspends at the await
Request ==
    /\ pc = "idle"
    /\ pc' = "awaiting"
    /\ arg' = [arg EXCEPT !.at = now]
    /\ UNCHANGED <<now, tasks, rawTasks, oracle, prev>>
    /\ UNCHANGED appVars

\* time passes while the call is outstanding
Wait ==
    /\ pc = "awaiting"
    /\ now < arg.at + MaxWait
    /\ now' = now + 1
    /\ UNCHANGED <<tasks, rawTasks, oracle, prev, arg, pc>>
    /\ UNCHANGED appVars

\* the call settles and generateSmartSchedule runs to its return
Resolve ==
    /\ pc = "awaiting"
    /\ \E reply \in OracleReplies :
          /\ oracle' = reply
          /\ tasks' = generateSmartSchedule(rawTasks, reply, now)
    /\ pc' = "done"
    /\ UNCHANGED <<now, rawTasks, prev, arg>>
    /\ UNCHANGED appVars

OracleNext == Request \/ Wait \/ Resolve

OracleSpec == OracleInit /\ [][OracleNext]_vars

(***************************************************************************)
(* CompleteSpec: handleCompleteTask applied to a task of the collection    *)
(***************************************************************************)
\* the tasks that get completed: recurring ones of every interval class, a
\* seasonal one with and one without an interval keyword, and one that does
\* not recur
CompletePool ==
    { DEFAULT_TASKS_HOUSE[8],     \* Change Furnace Filter
      DEFAULT_TASKS_HOUSE[2],     \* Test Smoke Alarms
      DEFAULT_TASKS_HOUSE[1],     \* Check HVAC Filter
      DEFAULT_TASKS_HOUSE[4],     \* Clean Gutters
      DEFAULT_TASKS_HOUSE[3],     \* Inspect Dryer Vent
      [DEFAULT_TASKS_HOUSE[20] EXCEPT !.recurring = TRUE],  \* Clean HVAC Screen
      [DEFAULT_TASKS_HOUSE[15] EXCEPT !.recurring = TRUE],  \* Winterize A/C
      ASSET_TASK_MAP["Refrigerator"][1] }                   \* Clean Coils

\* due dates, as scheduled or as edited by the user: first and last days of
\* months, a leap day, dates a round number of months before a clock value
DueDays ==
    { <<2023, 6, 1>>, <<2024, 1, 31>>, <<2024, 2, 29>>, <<2024, 6, 1>>,
      <<2024, 8, 31>>, <<2024, 11, 30>>, <<2025, 3, 1>>, <<2025, 6, 1>>,
      <<2025, 12, 1>> }
DueDates ==
    { At(d[1], d[2], d[3], time) : d \in DueDays, time \in 0..(TicksPerDay - 1) }
CompleteDays == { <<2024, 2, 29>>, <<2025, 2, 28>>, <<2025, 3, 1>>, <<2025, 6, 1>> }
CompleteNows ==
    { At(d[1], d[2], d[3], time) : d \in CompleteDays, time \in 0..(TicksPerDay - 1) }
\* the instant the collection was scheduled at
ScheduledAt == At(2023, 5, 1, 1)
\* actualCost as the completion form passes it: none, 0, an amount
Costs == { UndefinedCost, 0, 25 }

\* a collection of two tasks: a task without recurrence, then the template
\* t as scheduled by the fallback scheduler, its due date set to due
Collection(t, due) ==
    LET scheduled == distributeTasksFallback(<<Bare, t>>, 0, ScheduledAt)
    IN  [scheduled EXCEPT ![2].dueDate = toISOString(due)]

CompleteInit ==
    /\ now \in CompleteNows
    /\ \E t \in CompletePool, due \in DueDates : tasks = Collection(t, due)
    /\ rawTasks = << >>
    /\ oracle = NoOracle
    /\ prev = << >>
    /\ arg = NoArg
    /\ pc = "idle"
    /\ AppAtStart

\* the user completes a task, or the call comes for a task no longer there
Complete ==
    /\ pc = "idle"
    /\ \E id \in { tasks[i].id : i \in 1..Len(tasks) } \cup { TaskId(ScheduledAt, Len(tasks)) },
          cost \in Costs :
          /\ arg' = [NoArg EXCEPT !.op = "complete", !.id = id,
                                  !.cost = cost, !.at = now]
          /\ tasks' = handleCompleteTask(tasks, id, cost, now)
    /\ prev' = tasks
    /\ pc' = "done"
    /\ UNCHANGED <<now, rawTasks, oracle>>
    /\ UNCHANGED appVars

CompleteNext == Complete

CompleteSpec == CompleteInit /\ [][CompleteNext]_vars

(***************************************************************************)
(* AppSpec: the App from its construction: onboarding, then the user's     *)
(* events on the asset and task screens                                    *)
(***************************************************************************)
\* the instant the App is constructed at
AppStart == At(2025, 1, 29, 1)
HomeTypes == { "CONDO", "HOUSE" }
\* what the location field holds when a home type is clicked
Locations == { "", " ", "Toronto" }
\* !locationInput.trim()
Blank(location) == location \in { "", " " }
\* handleOnboarding that schedules the condo catalogue for every home type
catalogueOfCondo(type) == DEFAULT_TASKS_CONDO

\* the catalogue handleOnboarding schedules
catalogueOf(type) == IF type = "CONDO" THEN DEFAULT_TASKS_CONDO ELSE DEFAULT_TASKS_HOUSE
\* the oracle during onboarding: unavailable, or an array with one item
AppReplies ==
    { OracleReply("throw", << >>),
      OracleReply("array",
          << OracleItem(DEFAULT_TASKS_CONDO[3].title,
                        toISOString(At(2025, 4, 1, 0)), "INTERIOR") >>) }
\* the categories the asset form is submitted with
AssetCategories == { "Refrigerator", "Other" }
\* completeCost ? parseFloat(completeCost) : 0
FormCosts == { 25 }
\* the dates typed into the edit form
EditDates == { At(2025, 2, 20, 0) }

\* AssetManager.addManualTask: a task typed in by the user, due in 30 days
manualTask(nowv) ==
    [Template(<<"D","e","s","c","a","l","e">>, "Manually added maintenance task",
              Undefined, "MEDIUM", Undefined, FALSE, Undefined)
        EXCEPT !.dueDate = toISOString(nowv + 30 * TicksPerDay)]
\* AssetManager.handleSubmit: the selected generated tasks, as stamped
tasksToAdd(generated, nowv) ==
    [i \in 1..Len(generated) |->
        [generated[i] EXCEPT
            !.id = AiTaskId(nowv, i - 1),
            !.assetId = AssetId(nowv),
            !.status = "PENDING",
            !.priority = OrElse(generated[i].priority, "MEDIUM"),
            !.dueDate = IF FalsyDate(generated[i].dueDate)
                        THEN toISOString(nowv) ELSE generated[i].dueDate]]
\* a feature proposal with frequencyDays 30: recurring, due in 15 days
featureProposal(nowv) ==
    [Template(<<"C","h","e","c","k"," ","P","o","n","d"," ","P","u","m","p">>,
              "Check the pump", "Keeps the water moving", "MEDIUM",
              Undefined, TRUE, Undefined)
        EXCEPT !.dueDate = toISOString(nowv + Max(1, 15) * TicksPerDay)]
\* AssetManager.saveFeatureAndTasks: the selected proposals, as stamped
featureTasksToAdd(proposals, nowv) ==
    [i \in 1..Len(proposals) |->
        [proposals[i] EXCEPT
            !.id = FeatureTaskId(nowv, i - 1),
            !.assetId = FeatureId(nowv),
            !.status = "PENDING"]]

\* getUrgentTasks: not COMPLETED, and OVERDUE or due within a week
isUrgent(t, nowv) ==
    /\ t.status # "COMPLETED"
    /\ \/ t.status = "OVERDUE"
       \/ DateParse(t.dueDate) <= setDate(nowv, getDate(nowv) + 7)

AppInit ==
    /\ now = AppStart
    /\ tasks = << >>
    /\ rawTasks = << >>
    /\ oracle = NoOracle
    /\ prev = << >>
    /\ arg = NoArg
    /\ pc = "idle"
    /\ AppAtStart

\* time passes
Tick ==
    /\ now < AppStart + MaxTicks
    /\ now' = now + 1
    /\ UNCHANGED <<tasks, rawTasks, oracle, prev, arg, pc>>
    /\ UNCHANGED appVars

\* what a suspended handleOnboarding call holds in its closure
OnboardingCall(type, location, templates, at) ==
    [homeType |-> type, location |-> location, rawTasks |-> templates, at |-> at]

\* handleOnboarding(type) up to its await, with locationInput = location
handleOnboardingToAwait(type, location) ==
    /\ ~Blank(location)
    /\ isProcessing' = TRUE
    /\ rawTasks' = catalogueOf(type)
    /\ calls' = Append(calls, OnboardingCall(type, location, rawTasks', now))
    /\ arg' = [NoArg EXCEPT !.op = "onboard", !.homeType = type,
                            !.location = location, !.at = now]
    /\ pc' = "awaiting"
    /\ UNCHANGED <<now, tasks, oracle, prev>>
    /\ UNCHANGED <<assets, userState, selectedTask, editForm, ops>>

\* one of the two home type buttons is clicked
StartOnboarding ==
    /\ pc = "idle"
    /\ \E type \in HomeTypes, location \in Locations :
          handleOnboardingToAwait(type, location)

\* the CONDO button is clicked
StartCondoOnboarding ==
    /\ pc = "idle"
    /\ \E location \in Locations : handleOnboardingToAwait("CONDO", location)

\* handleOnboarding from its await on, and the score effect after it
FinishOnboarding ==
    /\ pc = "awaiting"
    /\ \E reply \in AppReplies :
          /\ oracle' = reply
          /\ tasks' = generateSmartSchedule(rawTasks, reply, now)
    /\ userState' = scoreEffect(tasks', assets,
                        [isOnboarded |-> TRUE, homeType |-> arg.homeType,
                         location |-> arg.location, score |-> 100])
    /\ isProcessing' = FALSE
    /\ calls' = Tail(calls)
    /\ prev' = tasks
    /\ pc' = "done"
    /\ UNCHANGED <<now, rawTasks, arg, assets, selectedTask, editForm, ops>>

\* a handler of the main screens has run: the event is counted and the
\* score effect follows the render
Handled(op, id, assetId, cost) ==
    /\ arg' = [NoArg EXCEPT !.op = op, !.id = id, !.assetId = assetId,
                            !.cost = cost, !.at = now]
    /\ prev' = tasks
    /\ ops' = ops + 1
    /\ userState' = scoreEffect(tasks', assets', userState)
    /\ UNCHANGED <<now, rawTasks, oracle, pc, calls, isProcessing>>
\* the user can act on the main screens
Ready == pc = "done" /\ ops < MaxOps

\* AssetManager.handleSubmit: handleAddAsset, then handleAddTasks if tasks
\* were generated and selected
AddAsset ==
    /\ Ready
    /\ \E category \in AssetCategories, generated \in { << >>, << manualTask(now) >> } :
          LET asset == Asset(AssetId(now), category)
              added == handleAddAsset(tasks, asset, now)
          IN  /\ assets' = Append(assets, asset)
              /\ tasks' = IF Len(generated) > 0
                          THEN handleAddTasks(added, tasksToAdd(generated, now))
                          ELSE added
    /\ Handled("addAsset", UndefinedId, AssetId(now), UndefinedCost)
    /\ UNCHANGED <<selectedTask, editForm>>

\* AssetManager.saveFeatureAndTasks
AddFeature ==
    /\ Ready
    /\ LET asset == Asset(FeatureId(now), "Other")
       IN  /\ assets' = Append(assets, asset)
           /\ tasks' = handleAddTasks(handleAddAsset(tasks, asset, now),
                           featureTasksToAdd(<< featureProposal(now) >>, now))
    /\ Handled("addAsset", UndefinedId, FeatureId(now), UndefinedCost)
    /\ UNCHANGED <<selectedTask, editForm>>

\* handleDeleteAsset, from the delete button of a listed asset
DeleteAsset ==
    /\ Ready
    /\ \E i \in 1..Len(assets) :
          /\ assets' = deleteAssetFrom(assets, assets[i].id)
          /\ tasks' = handleDeleteAsset(tasks, assets[i].id)
          /\ Handled("deleteAsset", UndefinedId, assets[i].id, UndefinedCost)
    /\ UNCHANGED <<selectedTask, editForm>>

\* TaskScheduler.openTaskDetails on a listed task
OpenTaskDetails ==
    /\ Ready
    /\ \E i \in 1..Len(tasks) :
          /\ selectedTask' = << tasks[i] >>
          /\ editForm' = tasks[i]
    /\ ops' = ops + 1
    /\ UNCHANGED <<now, tasks, rawTasks, oracle, prev, arg, pc, assets, userState,
                   calls, isProcessing>>

\* the due date input of the edit form
EditDueDate ==
    /\ Ready
    /\ selectedTask # NoSelection
    /\ \E d \in EditDates : editForm' = [editForm EXCEPT !.dueDate = toISOString(d)]
    /\ ops' = ops + 1
    /\ UNCHANGED <<now, tasks, rawTasks, oracle, prev, arg, pc, assets, userState,
                   selectedTask, calls, isProcessing>>

\* TaskScheduler.handleSaveEdit
SaveEdit ==
    /\ Ready
    /\ UNCHANGED <<assets, editForm>>
    /\ selectedTask # NoSelection
    /\ editForm.id # UndefinedId
    /\ tasks' = handleUpdateTask(tasks, editForm)
    /\ selectedTask' = << editForm >>
    /\ Handled("update", editForm.id, Undefined, UndefinedCost)

\* the delete button of the details: onDeleteTask, then closeTaskDetails
DeleteTask ==
    /\ Ready
    /\ UNCHANGED <<assets, editForm>>
    /\ selectedTask # NoSelection
    /\ tasks' = handleDeleteTask(tasks, selectedTask[1].id)
    /\ selectedTask' = NoSelection
    /\ Handled("delete", selectedTask[1].id, Undefined, UndefinedCost)

\* the ids a completion can be initiated for: a listed task that is not
\* COMPLETED, or the task of the open details as the details hold it
Completable ==
    { tasks[i].id : i \in { j \in 1..Len(tasks) : tasks[j].status # "COMPLETED" } }
        \cup { selectedTask[k].id :
                  k \in { j \in 1..Len(selectedTask) : selectedTask[j].status # "COMPLETED" } }

\* TaskScheduler.initiateCompletion and submitCompletion
SubmitCompletion ==
    /\ Ready
    /\ UNCHANGED <<assets, editForm>>
    /\ \E id \in Completable, cost \in FormCosts :
          /\ tasks' = handleCompleteTask(tasks, id, cost, now)
          /\ selectedTask' =
                IF selectedTask # NoSelection /\ selectedTask[1].id = id
                THEN NoSelection ELSE selectedTask
          /\ Handled("complete", id, Undefined, cost)

\* the complete button of an entry of the notification list
NotificationComplete ==
    /\ Ready
    /\ UNCHANGED <<assets, selectedTask, editForm>>
    /\ \E i \in 1..Len(tasks) :
          /\ isUrgent(tasks[i], now)
          /\ tasks' = handleCompleteTask(tasks, tasks[i].id, UndefinedCost, now)
          /\ Handled("complete", tasks[i].id, Undefined, UndefinedCost)

\* handleDeleteAllTasks
DeleteAllTasks ==
    /\ Ready
    /\ UNCHANGED <<assets, selectedTask, editForm>>
    /\ tasks' = handleDeleteAllTasks
    /\ Handled("deleteAll", UndefinedId, Undefined, UndefinedCost)

AppNext ==
    \/ Tick \/ StartCondoOnboarding \/ FinishOnboarding
    \/ AddAsset \/ AddFeature \/ DeleteAsset
    \/ OpenTaskDetails \/ EditDueDate \/ SaveEdit \/ DeleteTask
    \/ SubmitCompletion \/ NotificationComplete \/ DeleteAllTasks

AppSpec == AppInit /\ [][AppNext]_vars

(***************************************************************************)
(* HouseholdSpec: the main screens of an onboarded App that already holds   *)
(* an asset, for sequences of events longer than AppSpec reaches           *)
(***************************************************************************)
\* the starter tasks of a CONDO onboarded at AppStart with the oracle down
starterTasks ==
    generateSmartSchedule(catalogueOf("CONDO"), OracleReply("throw", << >>), AppStart)

\* the App after handleOnboarding, possibly the deletion of the first starter
\* task from its details, and the submission of the asset form
HouseholdInit ==
    /\ now = AppStart
    /\ rawTasks = catalogueOf("CONDO")
    /\ oracle = OracleReply("throw", << >>)
    /\ pc = "done"
    /\ ops = 0
    /\ calls = << >>
    /\ isProcessing = FALSE
    /\ selectedTask = NoSelection
    /\ \E deleted \in BOOLEAN, category \in AssetCategories :
          LET asset == Asset(AssetId(AppStart), category)
              kept == IF deleted THEN handleDeleteTask(starterTasks, starterTasks[1].id)
                      ELSE starterTasks
          IN  /\ editForm = IF deleted THEN starterTasks[1] ELSE EmptyForm
              /\ prev = kept
              /\ tasks = handleAddAsset(kept, asset, AppStart)
              /\ assets = << asset >>
              /\ arg = [NoArg EXCEPT !.op = "addAsset", !.assetId = asset.id,
                                     !.at = AppStart]
              /\ userState = scoreEffect(tasks, assets,
                                 [isOnboarded |-> TRUE, homeType |-> "CONDO",
                                  location |-> "Toronto", score |-> 100])

\* adding and deleting assets, and what the task list and the details of a
\* task offer
HouseholdNext ==
    \/ AddAsset \/ DeleteAsset
    \/ OpenTaskDetails \/ EditDueDate \/ SaveEdit \/ DeleteTask
    \/ SubmitCompletion

HouseholdSpec == HouseholdInit /\ [][HouseholdNext]_vars

(***************************************************************************)
(* LiveSpec: the App with the await of handleOnboarding and the score      *)
(* effect as steps of their own, run by the event loop                     *)
(***************************************************************************)
\* the sequence without its k-th element
RemoveAt(seq, k) == SubSeq(seq, 1, k - 1) \o SubSeq(seq, k + 1, Len(seq))

\* handleOnboarding that keeps the schedule of the call that resolved first
tasksAfterOnboardingFirstWins(list, call, reply, nowv) ==
    IF Len(list) > 0 THEN list
    ELSE generateSmartSchedule(call.rawTasks, reply, nowv)

\* setTasks(processedTasks) of a resumed call: the collection is replaced
tasksAfterOnboarding(list, call, reply, nowv) ==
    generateSmartSchedule(call.rawTasks, reply, nowv)

\* what the oracle call of an onboarding does: it throws, it returns a
\* schedule, it returns text that is no JSON
LiveReplies == AppReplies \cup { OracleReply("notjson", << >>) }

\* handleOnboarding called with a location of spaces only: the alert, and
\* the return
AttemptBlankOnboarding ==
    /\ ~userState.isOnboarded
    /\ ops < MaxLiveOps
    /\ \E type \in HomeTypes, location \in { l \in Locations : Blank(l) /\ l # "" } :
          arg' = [NoArg EXCEPT !.op = "onboard", !.homeType = type,
                                !.location = location, !.at = now]
    /\ ops' = ops + 1
    /\ UNCHANGED <<now, tasks, rawTasks, oracle, prev, pc, assets, userState,
                   selectedTask, editForm, calls, isProcessing>>

\* handleOnboarding called while the onboarding view is what is rendered,
\* whether or not an earlier call is still at its await
CallOnboarding ==
    /\ ~userState.isOnboarded
    /\ Len(calls) < MaxCalls
    /\ \E type \in HomeTypes, location \in Locations :
          handleOnboardingToAwait(type, location)

\* ResolveOnboarding without the setIsProcessing(false) at its end
ResolveOnboardingKeepsSpinner ==
    /\ Len(calls) > 0
    /\ \E k \in 1..Len(calls), reply \in LiveReplies :
          /\ oracle' = reply
          /\ tasks' = generateSmartSchedule(calls[k].rawTasks, reply, now)
          /\ userState' = [isOnboarded |-> TRUE, homeType |-> calls[k].homeType,
                           location |-> calls[k].location, score |-> 100]
          /\ rawTasks' = calls[k].rawTasks
          /\ arg' = [NoArg EXCEPT !.op = "onboard", !.homeType = calls[k].homeType,
                                  !.location = calls[k].location, !.at = calls[k].at]
          /\ calls' = RemoveAt(calls, k)
    /\ prev' = tasks
    /\ pc' = "effect"
    /\ UNCHANGED <<now, assets, selectedTask, editForm, ops, isProcessing>>

\* the oracle call of one suspended handleOnboarding settles and the handler
\* runs on from its await to its end
ResolveOnboarding ==
    /\ Len(calls) > 0
    /\ \E k \in 1..Len(calls), reply \in LiveReplies :
          /\ oracle' = reply
          /\ tasks' = tasksAfterOnboarding(tasks, calls[k], reply, now)
          /\ userState' = [isOnboarded |-> TRUE, homeType |-> calls[k].homeType,
                           location |-> calls[k].location, score |-> 100]
          /\ rawTasks' = calls[k].rawTasks
          /\ arg' = [NoArg EXCEPT !.op = "onboard", !.homeType = calls[k].homeType,
                                  !.location = calls[k].location, !.at = calls[k].at]
          /\ calls' = RemoveAt(calls, k)
    /\ isProcessing' = FALSE
    /\ prev' = tasks
    /\ pc' = "effect"
    /\ UNCHANGED <<now, assets, selectedTask, editForm, ops>>

\* the score effect, run after the render that a change of tasks, assets,
\* isOnboarded or homeType caused
ScoreEffect ==
    /\ pc = "effect"
    /\ userState' = scoreEffect(tasks, assets, userState)
    /\ pc' = IF Len(calls) > 0 THEN "awaiting" ELSE "done"
    /\ UNCHANGED <<now, tasks, rawTasks, oracle, prev, arg, assets,
                   selectedTask, editForm, ops, calls, isProcessing>>

\* a handler of the dashboard can run: the dashboard is rendered and no
\* effect is pending
Dashboard == userState.isOnboarded /\ pc # "effect" /\ ops < MaxLiveOps

\* handleAddAsset from the asset form, for a smoke alarm, up to the render
TrackAsset ==
    /\ Dashboard
    /\ \E category \in { "Smoke Alarm" } :
          /\ assets' = Append(assets, Asset(AssetId(now), category))
          /\ tasks' = handleAddAsset(tasks, Asset(AssetId(now), category), now)
    /\ arg' = [NoArg EXCEPT !.op = "addAsset", !.assetId = AssetId(now), !.at = now]
    /\ prev' = tasks
    /\ ops' = ops + 1
    /\ pc' = "effect"
    /\ UNCHANGED <<now, rawTasks, oracle, userState, selectedTask, editForm,
                   calls, isProcessing>>

\* handleDeleteAsset from the asset list, up to the render
UntrackAsset ==
    /\ Dashboard
    /\ \E i \in 1..Len(assets) :
          /\ assets' = deleteAssetFrom(assets, assets[i].id)
          /\ tasks' = handleDeleteAsset(tasks, assets[i].id)
          /\ arg' = [NoArg EXCEPT !.op = "deleteAsset", !.assetId = assets[i].id,
                                  !.at = now]
    /\ prev' = tasks
    /\ ops' = ops + 1
    /\ pc' = "effect"
    /\ UNCHANGED <<now, rawTasks, oracle, userState, selectedTask, editForm,
                   calls, isProcessing>>

LiveNext ==
    \/ AttemptBlankOnboarding \/ CallOnboarding \/ ResolveOnboarding
    \/ ScoreEffect \/ TrackAsset \/ UntrackAsset

\* weak fairness of ResolveOnboarding, which is enabled exactly when a call
\* is suspended: the oracle call settles, and the event loop resumes the
\* handler
FairResolveOnboarding ==
    []<>(Len(calls) = 0) \/ []<><<ResolveOnboarding>>_vars

\* a settled oracle call resumes its handler, and React runs a pending effect
LiveSpec ==
    /\ AppInit
    /\ [][LiveNext]_vars
    /\ FairResolveOnboarding
    /\ WF_vars(ScoreEffect)

(***************************************************************************)
(* OnboardSpec: handleOnboarding for either home type, from the click to   *)
(* the schedule                                                            *)
(***************************************************************************)
\* the days the App is first opened on
OnboardDays ==
    { <<2025, 1, 29>>, <<2025, 3, 1>>, <<2025, 5, 15>>, <<2025, 6, 14>>,
      <<2025, 6, 15>>, <<2025, 10, 20>>, <<2025, 11, 14>>, <<2025, 11, 15>>,
      <<2025, 12, 1>>, <<2024, 2, 27>>, <<2024, 12, 30>> }
OnboardNows == { At(d[1], d[2], d[3], 1) : d \in OnboardDays }

OnboardInit ==
    /\ now \in OnboardNows
    /\ tasks = << >>
    /\ rawTasks = << >>
    /\ oracle = NoOracle
    /\ prev = << >>
    /\ arg = NoArg
    /\ pc = "idle"
    /\ AppAtStart

OnboardNext == StartOnboarding \/ Wait \/ FinishOnboarding

OnboardSpec == OnboardInit /\ [][OnboardNext]_vars

(***************************************************************************)
(* ScoreSpec: getScoreBreakdown and the score effect on the collections    *)
(* that handleImportData reads from a backup file                          *)
(***************************************************************************)
ScoreNow == At(2025, 6, 1, 0)
\* task k of a backup: a scheduled task with the status and the due date
\* the file gives it
backupTask(k, status, due) ==
    [distributeTasksFallback(<< DEFAULT_TASKS_CONDO[3] >>, k, ScheduledAt)[1]
        EXCEPT !.status = status, !.dueDate = toISOString(due)]
\* the tasks of a backup: nOverdue stored as OVERDUE, nPastDue PENDING and
\* due before ScoreNow, nAhead PENDING and due after it, nDone COMPLETED
backupTasks(nOverdue, nPastDue, nAhead, nDone) ==
    [k \in 1..nOverdue |-> backupTask(k, "OVERDUE", At(2025, 5, 1, 0))]
    \o [k \in 1..nPastDue |-> backupTask(nOverdue + k, "PENDING", At(2025, 5, 20, 1))]
    \o [k \in 1..nAhead |-> backupTask(nOverdue + nPastDue + k, "PENDING", At(2025, 7, 1, 0))]
    \o [k \in 1..nDone |->
            backupTask(nOverdue + nPastDue + nAhead + k, "COMPLETED", At(2025, 4, 1, 0))]
\* the assets of a backup: one of each category of the set, in a fixed order
backupAssets(categories) ==
    (IF "Refrigerator" \in categories
     THEN << Asset(AssetId(ScheduledAt), "Refrigerator") >> ELSE << >>)
    \o (IF "Smoke Alarm" \in categories
        THEN << Asset(AssetId(ScheduledAt + 1), "Smoke Alarm") >> ELSE << >>)
    \o (IF "HVAC" \in categories
        THEN << Asset(AssetId(ScheduledAt + 2), "HVAC") >> ELSE << >>)
\* the user records of a backup
backupUsers ==
    { [isOnboarded |-> o, homeType |-> h, location |-> "Toronto", score |-> 100] :
        o \in BOOLEAN, h \in { "null", "CONDO", "HOUSE" } }

ScoreInit ==
    /\ now = ScoreNow
    /\ tasks = << >>
    /\ rawTasks = << >>
    /\ oracle = NoOracle
    /\ prev = << >>
    /\ arg = NoArg
    /\ pc = "idle"
    /\ AppAtStart

\* handleImportData with a confirmed, well-formed backup, and the score
\* effect after it
ImportData ==
    /\ pc = "idle"
    /\ \E nOverdue \in 0..MaxOverdue, nPastDue \in 0..MaxPastDue,
          nAhead \in 0..1, nDone \in 0..1,
          categories \in SUBSET { "Refrigerator", "Smoke Alarm", "HVAC" },
          user \in backupUsers :
          /\ tasks' = backupTasks(nOverdue, nPastDue, nAhead, nDone)
          /\ assets' = backupAssets(categories)
          /\ userState' = scoreEffect(tasks', assets', user)
    /\ arg' = [NoArg EXCEPT !.op = "import", !.at = now]
    /\ prev' = tasks
    /\ pc' = "done"
    /\ UNCHANGED <<now, rawTasks, oracle, selectedTask, editForm, ops, calls, isProcessing>>

ScoreNext == ImportData

ScoreSpec == ScoreInit /\ [][ScoreNext]_vars

(***************************************************************************)
(* Properties of the fallback scheduler                                    *)
(***************************************************************************)
\* the instant n whole days after t
DaysAfter(t, n) == t + n * TicksPerDay
\* the due date of the i-th scheduled task, as an instant
DueOf(i) == DateParse(tasks[i].dueDate)
\* the title mentions "smoke", whatever the case of its letters
MentionsSmoke(t) ==
    /\ t.title # UndefinedTitle
    /\ \E k \in 0..(Len(t.title) - 5) :
          \A j \in 1..5 : LowerChar(t.title[k + j]) = smoke[j]
\* the template the safety rule is about
SafetyTemplate(t) ==
    MentionsSmoke(t) \/ (t.priority = "HIGH" /\ t.season = Undefined)
\* a template with a season that the safety rule leaves alone
SeasonalTemplate(t) ==
    ~SafetyTemplate(t) /\ t.season \in {"Late Spring", "Late Fall"}
\* a template that is neither
GeneralTemplate(t) == ~SafetyTemplate(t) /\ t.season = Undefined
\* the 15th of the anchor month of the season in year y, at midnight
Anchor(season, y) == At(y, IF season = "Late Spring" THEN 5 ELSE 10, 15, 0)

\* C1: under the fallback scheduler every template that is HIGH without a
\* season, or whose title contains "smoke" in any letter case, is due at
\* now + 3 days, whatever its position in the batch.
C1_SafetyDueInThreeDays ==
    pc = "done" =>
        \A i \in 1..Len(rawTasks) :
            SafetyTemplate(rawTasks[i]) => DueOf(i) = DaysAfter(now, 3)

\* a smoke-titled template that has a season, and a HIGH one without, both
\* behind the head of the batch and both due in three days
C1_Witness ==
    /\ pc = "done"
    /\ Len(rawTasks) = 3
    /\ rawTasks[2] = SmokeSeasonal
    /\ rawTasks[3] = DEFAULT_TASKS_HOUSE[8]
    /\ DueOf(2) = DaysAfter(now, 3)
    /\ DueOf(3) = DaysAfter(now, 3)
    /\ getMonth(DueOf(3)) # getMonth(now)

\* C2: a seasonal template the safety rule leaves alone is due on the 15th
\* of its anchor month of the current year, or of the next year once now is
\* more than 30 days past that date; "Late Fall" on March 1 of Y gives
\* October 15 of Y, on December 1 of Y gives October 15 of Y + 1.
C2_SeasonalAnchor ==
    pc = "done" =>
        \A i \in 1..Len(rawTasks) :
            LET t == rawTasks[i]
                Y == getFullYear(now)
            IN  SeasonalTemplate(t) =>
                  /\ DueOf(i) = IF now > DaysAfter(Anchor(t.season, Y), 30)
                                THEN Anchor(t.season, Y + 1)
                                ELSE Anchor(t.season, Y)
                  /\ (t.season = "Late Fall" /\ getMonth(now) = 2 /\ getDate(now) = 1)
                        => DueOf(i) = At(Y, 10, 15, 0)
                  /\ (t.season = "Late Fall" /\ getMonth(now) = 11 /\ getDate(now) = 1)
                        => DueOf(i) = At(Y + 1, 10, 15, 0)

\* "Late Fall" scheduled on December 1 lands on October 15 of the next year,
\* and "Late Spring" scheduled in the same batch on May 15 of the next year
C2_Witness ==
    /\ pc = "done"
    /\ Len(rawTasks) = 2
    /\ now = At(2025, 12, 1, 1)
    /\ rawTasks[1] = DEFAULT_TASKS_HOUSE[15]
    /\ rawTasks[2] = DEFAULT_TASKS_HOUSE[17]
    /\ DueOf(1) = At(2026, 10, 15, 0)
    /\ DueOf(2) = At(2026, 5, 15, 0)

\* C3: for a batch of general templates only, the due dates increase
\* strictly in batch order, each is a Saturday, and consecutive ones are at
\* least 7 days apart, on any weekday of now.
C3_LoadSpread ==
    (pc = "done" /\ \A i \in 1..Len(rawTasks) : GeneralTemplate(rawTasks[i])) =>
        \A i \in 1..Len(rawTasks) :
            /\ getDay(DueOf(i)) = 6
            /\ i > 1 => /\ DueOf(i) > DueOf(i - 1)
                        /\ DueOf(i) >= DaysAfter(DueOf(i - 1), 7)

\* a full batch of general templates scheduled on a Wednesday across the end
\* of a month
C3_Witness ==
    /\ pc = "done"
    /\ Len(rawTasks) = MaxBatch
    /\ \A i \in 1..Len(rawTasks) : GeneralTemplate(rawTasks[i])
    /\ getDay(now) = 3
    /\ getMonth(DueOf(1)) # getMonth(now)
    /\ \A i \in 2..Len(rawTasks) : DueOf(i) = DaysAfter(DueOf(i - 1), 7)

(***************************************************************************)
(* Properties of the AI-assisted scheduler                                 *)
(***************************************************************************)
\* task is the instance of template t: the template's fields carried over,
\* a placeholder standing in for a missing title
InstanceOf(task, t) ==
    /\ task.title = (IF FalsyTitle(t.title) THEN task.title ELSE t.title)
    /\ FalsyTitle(t.title) => task.title \in {Untitled, UntitledTask}
    /\ task.importance = t.importance
    /\ task.recurring = t.recurring
    /\ task.season = t.season
    /\ task.assetId = t.assetId

\* C4: generateSmartSchedule never fails: whatever the oracle does (throws,
\* no text, no JSON, JSON that is no array, an empty array, items missing or
\* with invalid dates) it resolves with exactly one PENDING task per input
\* template, in the input order.
C4_OnePendingTaskPerTemplate ==
    pc = "done" =>
        /\ Len(tasks) = Len(rawTasks)
        /\ \A i \in 1..Len(tasks) :
              /\ tasks[i].status = "PENDING"
              /\ InstanceOf(tasks[i], rawTasks[i])

\* a reply that is JSON but no array, for a full batch of distinct templates
C4_Witness ==
    /\ pc = "done"
    /\ oracle.kind = "object"
    /\ Len(rawTasks) = MaxOracleBatch
    /\ rawTasks[1] # rawTasks[2]
    /\ Len(tasks) = MaxOracleBatch
    /\ now > arg.at

\* the element of the reply that answers template t: the first one with the
\* title of t; 0 if there is none
AnswerTo(t) ==
    IF \E k \in 1..Len(oracle.items) :
          ~oracle.items[k].isNull /\ oracle.items[k].title = t.title
    THEN CHOOSE k \in 1..Len(oracle.items) :
            /\ ~oracle.items[k].isNull /\ oracle.items[k].title = t.title
            /\ \A j \in 1..(k - 1) :
                  oracle.items[j].isNull \/ oracle.items[j].title # t.title
    ELSE 0
\* the reply gives a valid date for t
ValidAnswer(t) ==
    AnswerTo(t) # 0 /\ oracle.items[AnswerTo(t)].dueDate.kind = "iso"
\* the date the fallback scheduler computes for t alone
FallbackDateFor(t) == distributeTasksFallback(<<t>>, 0, now)[1].dueDate

\* C5: when one reply gives a valid date for template A and an invalid or
\* missing date for template B of the same batch, the result holds both
\* tasks, A with the oracle's date and B with the fallback's date for B.
C5_PartialFallback ==
    (pc = "done" /\ oracle.kind = "array") =>
        \A a, b \in 1..Len(rawTasks) :
            (ValidAnswer(rawTasks[a]) /\ ~ValidAnswer(rawTasks[b])) =>
                /\ Len(tasks) = Len(rawTasks)
                /\ tasks[a].dueDate = oracle.items[AnswerTo(rawTasks[a])].dueDate
                /\ tasks[b].dueDate = FallbackDateFor(rawTasks[b])

\* the first Saturday on or after t
SaturdayOnOrAfter(t) == DaysAfter(t, (6 - getDay(t) + 7) % 7)
\* two tasks that differ in their ids at most
SameButId(x, y) == [x EXCEPT !.id = UndefinedId] = [y EXCEPT !.id = UndefinedId]

\* C6: if the oracle call throws, the result is, ids excluded, the fallback
\* scheduler's result for the whole batch at the same now: same order, due
\* dates and categories, the load-spread index being the batch position.
C6_ThrowGivesBatchFallback ==
    (pc = "done" /\ oracle.kind = "throw") =>
        /\ Len(tasks) = Len(rawTasks)
        /\ \A i \in 1..Len(tasks) :
              /\ SameButId(tasks[i], distributeTasksFallback(rawTasks, 0, now)[i])
              /\ GeneralTemplate(rawTasks[i]) =>
                    DueOf(i) = SaturdayOnOrAfter(DaysAfter(now, 7 * (2 + i - 1)))

\* the call throws for a batch of two general templates, which end up a week
\* apart
C6_Witness ==
    /\ pc = "done"
    /\ oracle.kind = "throw"
    /\ Len(rawTasks) = 2
    /\ GeneralTemplate(rawTasks[1]) /\ GeneralTemplate(rawTasks[2])
    /\ DueOf(2) = DaysAfter(DueOf(1), 7)

\* C7: every task either scheduler emits has a due date that is a valid
\* date and not earlier than now at scheduling time.
C7_NoPastDueDate ==
    pc = "done" =>
        \A i \in 1..Len(tasks) : DueOf(i) # NaN /\ DueOf(i) >= now

(***************************************************************************)
(* Properties of completion and recurrence                                 *)
(***************************************************************************)
\* the completion found its task
Found == pc = "done" /\ \E p \in 1..Len(prev) : prev[p].id = arg.id
\* the task as it was when it was completed
Old == prev[CHOOSE p \in 1..Len(prev) : prev[p].id = arg.id]
OldDue == DateParse(Old.dueDate)
\* the completion appended a task
HasSpawn == Len(tasks) = Len(prev) + 1
Spawned == tasks[Len(tasks)]
SpawnedDue == DateParse(Spawned.dueDate)

\* the lower-cased title of the task contains the word
TitleHas(task, word) ==
    \E k \in 0..(Len(task.title) - Len(word)) :
        \A j \in 1..Len(word) : LowerChar(task.title[k + j]) = word[j]
\* the interval table: filter 3, else smoke alarm 6, else gutters or hvac 6,
\* else 12
IntervalOf(task) ==
    IF TitleHas(task, filter) THEN 3
    ELSE IF TitleHas(task, smokeAlarm) THEN 6
    ELSE IF TitleHas(task, gutters) \/ TitleHas(task, hvac) THEN 6
    ELSE 12
\* the same day of the month and time of day, n calendar months later
\* (for a day every month has)
MonthsLater(t, n) ==
    LET c == CivilFromDays(Day(t))
        m == c.year * 12 + c.month + n
    IN  At(m \div 12, (m % 12) + 1, c.date, TimeWithinDay(t))

CheckHVACFilter == DEFAULT_TASKS_CONDO[1].title
TestSmokeAlarms == DEFAULT_TASKS_CONDO[2].title
CleanGutters == DEFAULT_TASKS_HOUSE[4].title
ChangeFurnaceFilter == DEFAULT_TASKS_HOUSE[8].title

\* C8: the months added on completing a recurring task follow the title:
\* "filter" 3, else "smoke alarm" 6, else "gutters" or "hvac" 6, else 12,
\* season or not; "Check HVAC Filter" gets 3, and "Clean Gutters" completed
\* on its due date spawns a task due 6 months later.  (Stated for due dates
\* on a day every month has and a next date that is not before now.)
C8_IntervalByTitle ==
    (Found /\ Old.recurring /\ getDate(OldDue) <= 28) =>
        /\ MonthsLater(OldDue, IntervalOf(Old)) >= now =>
              HasSpawn /\ SpawnedDue = MonthsLater(OldDue, IntervalOf(Old))
        /\ (Old.title = CheckHVACFilter /\ MonthsLater(OldDue, 3) >= now) =>
              HasSpawn /\ SpawnedDue = MonthsLater(OldDue, 3)
        /\ (Old.title = CleanGutters /\ now = OldDue) =>
              HasSpawn /\ SpawnedDue = MonthsLater(OldDue, 6)

\* "Clean Gutters" completed at its due date: the recurrence is six months on
C8_Witness ==
    /\ Found
    /\ Old.title = CleanGutters
    /\ now = OldDue
    /\ HasSpawn
    /\ SpawnedDue = At(2025, 12, 1, TimeWithinDay(now))

C10_SpawnStrictlyAfterNow ==
    (Found /\ Old.recurring) =>
        LET next == addMonths(OldDue, monthsToAdd(Old))
            Y == getFullYear(now)
        IN  /\ HasSpawn
            /\ next < now =>
                  SpawnedDue = IF setFullYear(next, Y) < now
                               THEN setFullYear(setFullYear(next, Y), Y + 1)
                               ELSE setFullYear(next, Y)
            /\ SpawnedDue > now

\* C11: completing a task whose recurring flag is true adds exactly one new
\* task, PENDING and due strictly later than the completed task was due;
\* completing a task whose recurring flag is false or absent adds none.
C11_OneLaterPendingSpawn ==
    Found =>
        /\ \A p \in 1..Len(prev) : tasks[p].id = prev[p].id
        /\ Old.recurring =>
              /\ HasSpawn
              /\ Spawned.status = "PENDING"
              /\ SpawnedDue # NaN
              /\ SpawnedDue > OldDue
        /\ ~Old.recurring => Len(tasks) = Len(prev)

\* a recurring task completed long after it was due: one task more, PENDING,
\* due after the old due date and not before the time of completion
C11_Witness ==
    /\ Found
    /\ Old.recurring
    /\ OldDue < now
    /\ addMonths(OldDue, monthsToAdd(Old)) < now
    /\ HasSpawn
    /\ Spawned.status = "PENDING"
    /\ SpawnedDue > OldDue
    /\ SpawnedDue >= now

(***************************************************************************)
(* Properties of the task and asset collections                            *)
(***************************************************************************)
\* the step keeps every task in its place (nothing was removed)
KeepsPlaces == Len(tasks') >= Len(tasks)
\* task p is the same instance before and after the step
SameInstance(p) == KeepsPlaces /\ tasks'[p].id = tasks[p].id

\* C12: over any sequence of operations a task's status stays as it is or
\* moves from PENDING or OVERDUE to COMPLETED; a COMPLETED task is never
\* PENDING or OVERDUE again, and a step that removes tasks leaves the
\* remaining ones as they were.
C12_CompletedIsTerminal ==
    [][ /\ \A p \in 1..Len(tasks) :
              SameInstance(p) =>
                 \/ tasks'[p].status = tasks[p].status
                 \/ /\ tasks[p].status \in { "PENDING", "OVERDUE" }
                    /\ tasks'[p].status = "COMPLETED"
        /\ ~KeepsPlaces =>
              \A q \in 1..Len(tasks') : \E p \in 1..Len(tasks) : tasks'[q] = tasks[p]
      ]_vars

\* the ids of the tasks of a list
IdsOf(list) == { list[i].id : i \in 1..Len(list) }

\* C13: after any sequence of onboarding, asset additions, added task
\* batches and completions no two tasks of the collection share an id, and
\* the task spawned by a completion has an id no task had before, also when
\* several operations happen at the same clock value.
C13_UniqueTaskIds ==
    /\ \A i, j \in 1..Len(tasks) : i # j => tasks[i].id # tasks[j].id
    /\ (arg.op = "complete" /\ HasSpawn) => Spawned.id \notin IdsOf(prev)

(***************************************************************************)
(* Properties of the health score                                          *)
(***************************************************************************)
\* the score breakdown of the current state
Breakdown == getScoreBreakdown(tasks, assets, userState)
\* a PENDING task whose due date is earlier than now
PastDuePending(t) == t.status = "PENDING" /\ DateParse(t.dueDate) < now
\* the collection with the status every task is to be treated as having
Derived(list) ==
    [i \in 1..Len(list) |->
        IF PastDuePending(list[i]) THEN [list[i] EXCEPT !.status = "OVERDUE"]
        ELSE list[i]]

\* C14: a PENDING task due before now counts as OVERDUE in the score: the
\* score is the one the collection would give with every such task stored
\* as OVERDUE, 10 points off for each, no stored status change needed.
C14_PastDuePendingCounts ==
    pc = "done" =>
        /\ Breakdown.score = getScoreBreakdown(Derived(tasks), assets, userState).score
        /\ userState.isOnboarded => userState.score = Breakdown.score

\* the step is a call of handleCompleteTask, handleUpdateTask or
\* handleDeleteTask with an id that no task of the collection has
UnknownIdCall ==
    /\ ops' = ops + 1
    /\ arg'.op \in { "complete", "update", "delete" }
    /\ arg'.id \notin IdsOf(tasks)

\* C15: completing, updating or deleting with a task id that is not in the
\* collection changes nothing: the task collection and the asset collection
\* stay as they are and no task is spawned.
C15_UnknownIdIsNoOp ==
    [][ UnknownIdCall => (tasks' = tasks /\ assets' = assets) ]_vars

\* the details of a task were left open while the collection was emptied,
\* and the task was then completed from the details: nothing came of it
C15_Witness ==
    /\ pc = "done"
    /\ arg.op = "complete"
    /\ arg.id \notin IdsOf(prev)
    /\ arg.id # UndefinedId
    /\ tasks = prev
    /\ assets = << >>

\* C16: for any tasks, assets, onboarding flag and home type the computed
\* score lies in 0..100, however many tasks are OVERDUE and whichever
\* assets are missing; so does the score the effect stores.
C16_ScoreInRange ==
    /\ Breakdown.score \in 0..100
    /\ userState.score \in 0..100

\* ten OVERDUE tasks and no smoke alarm in an onboarded household: 110
\* points of deductions, and a score of 0
C16_Witness ==
    /\ pc = "done"
    /\ userState.isOnboarded
    /\ overdueCount(tasks) = 10
    /\ ~hasAsset(assets, "Smoke Alarm")
    /\ pointsOf(Breakdown.deductions) > 100
    /\ Breakdown.score = 0
    /\ userState.score = 0

\* the last handler was handleDeleteAsset
AssetDeleted == pc = "done" /\ arg.op = "deleteAsset"
\* the tasks of a list that do not reference the asset, in their order
NotOfAsset(list, id) == SelectSeq(list, LAMBDA t : t.assetId # id)

\* C17: deleting an asset removes exactly the tasks whose assetId is the
\* deleted asset's id, recurrences spawned from them included, and leaves
\* every other task, with or without an assetId, as it was.
C17_DeleteAssetCascade ==
    AssetDeleted =>
        /\ tasks = NotOfAsset(prev, arg.assetId)
        /\ \A i \in 1..Len(tasks) : tasks[i].assetId # arg.assetId
        /\ \A p \in 1..Len(prev) :
              prev[p].assetId # arg.assetId => \E i \in 1..Len(tasks) : tasks[i] = prev[p]

\* a feature was deleted after its recurring task had been completed: the
\* completed task and its recurrence are gone, the starter tasks are not
C17_Witness ==
    /\ AssetDeleted
    /\ \E p, q \in 1..Len(prev) :
          /\ prev[p].assetId = arg.assetId
          /\ prev[p].status = "COMPLETED"
          /\ prev[q].assetId = arg.assetId
          /\ prev[q].id[1] = "task-recurring"
    /\ Len(tasks) = Len(prev) - 2
    /\ \E i \in 1..Len(tasks) : tasks[i].assetId = Undefined

(***************************************************************************)
(* Properties of onboarding and of adding assets                           *)
(***************************************************************************)
\* handleOnboarding has run for a HOUSE and the oracle call failed
HouseOnboardedByFallback ==
    /\ pc = "done"
    /\ arg.op = "onboard"
    /\ arg.homeType = "HOUSE"
    /\ oracle.kind = "throw"
\* the positions of the tasks with the given season
OfSeason(season) == { i \in 1..Len(tasks) : tasks[i].season = season }
\* the positions of the tasks with the given title
Titled(title) == { i \in 1..Len(tasks) : tasks[i].title = title }

\* C18 as stated: onboarding as HOUSE with the oracle unavailable gives
\* exactly 9 starter tasks, the 3 condo tasks and 6 more, "Test Smoke
\* Alarms" due in 3 days, exactly one "Late Fall" and one "Late Spring" task.
C18_NineStarterTasks ==
    HouseOnboardedByFallback =>
        /\ Len(tasks) = 9
        /\ \A i \in 1..3 : tasks[i].title = DEFAULT_TASKS_CONDO[i].title
        /\ \A i \in Titled(TestSmokeAlarms) : DueOf(i) = DaysAfter(now, 3)
        /\ Cardinality(OfSeason("Late Fall")) = 1
        /\ Cardinality(OfSeason("Late Spring")) = 1

\* C18 as amended: it gives exactly 22 starter tasks, the 3 condo tasks and
\* 19 more, one of them "Test Smoke Alarms", due in 3 days, exactly eight
\* "Late Fall" tasks and exactly six "Late Spring" tasks, all PENDING.
C18_TwentyTwoStarterTasks ==
    HouseOnboardedByFallback =>
        /\ Len(tasks) = 22
        /\ \A i \in 1..3 : tasks[i].title = DEFAULT_TASKS_CONDO[i].title
        /\ Cardinality(Titled(TestSmokeAlarms)) = 1
        /\ \A i \in Titled(TestSmokeAlarms) : DueOf(i) = DaysAfter(now, 3)
        /\ Cardinality(OfSeason("Late Fall")) = 8
        /\ Cardinality(OfSeason("Late Spring")) = 6
        /\ \A i \in 1..Len(tasks) : tasks[i].status = "PENDING"

\* a house onboarded on 2025-03-01 without the oracle: the household is
\* onboarded as a HOUSE and the smoke alarm test is due on 2025-03-04
C18_Witness ==
    /\ HouseOnboardedByFallback
    /\ userState.isOnboarded
    /\ userState.homeType = "HOUSE"
    /\ now = At(2025, 3, 1, 1)
    /\ Len(tasks) = Len(DEFAULT_TASKS_HOUSE)
    /\ DueOf(2) = At(2025, 3, 4, 1)

\* the last handler added an asset of category "Refrigerator"
RefrigeratorAdded ==
    /\ pc = "done"
    /\ arg.op = "addAsset"
    /\ assets[Len(assets)].category = "Refrigerator"
CleanCoils == ASSET_TASK_MAP["Refrigerator"][1].title
ReplaceWaterFilter == ASSET_TASK_MAP["Refrigerator"][2].title
\* task i is new, PENDING, has the title, references the new asset and is
\* due on the first Saturday on or after the time of the call + weeks weeks
NewAssetTask(i, title, weeks) ==
    /\ tasks[i].title = title
    /\ tasks[i].status = "PENDING"
    /\ tasks[i].assetId = arg.assetId
    /\ tasks[i].id \notin IdsOf(prev)
    /\ DueOf(i) = SaturdayOnOrAfter(DaysAfter(arg.at, 7 * weeks))

\* C19: adding an asset of category "Refrigerator" adds exactly 2 new
\* PENDING tasks, "Clean Coils" and "Replace Water Filter", both with the
\* new asset's id as assetId and due on the Saturdays on or after now + 2
\* weeks and now + 3 weeks, and leaves the existing tasks unchanged (tasks
\* generated in the asset form and submitted along are a batch of their own).
C19_RefrigeratorTasks ==
    RefrigeratorAdded =>
        /\ Len(tasks) >= Len(prev) + 2
        /\ SubSeq(tasks, 1, Len(prev)) = prev
        /\ NewAssetTask(Len(prev) + 1, CleanCoils, 2)
        /\ NewAssetTask(Len(prev) + 2, ReplaceWaterFilter, 3)
        /\ \A i \in (Len(prev) + 3)..Len(tasks) : tasks[i].id[1] = "ai"

\* the number of tasks stored as OVERDUE
Overdue == Cardinality({ i \in 1..Len(tasks) : tasks[i].status = "OVERDUE" })
\* the deduction for a missing smoke alarm applies
SmokeAlarmMissing == userState.isOnboarded /\ ~hasAsset(assets, "Smoke Alarm")
\* the deduction for a missing HVAC system applies, as the claim has it
HvacMissing == userState.homeType = "HOUSE" /\ ~hasAsset(assets, "HVAC")
\* the same for an onboarded household only
HvacMissingOnboarded == userState.isOnboarded /\ HvacMissing
\* the breakdown is: the score left after the deductions, floored at 0; one
\* entry of 10 points a task when tasks are OVERDUE, then 10 points for the
\* smoke alarm, then 5 for the HVAC system; the points sum to the deduction
BreakdownIs(noSmokeAlarm, noHvac) ==
    LET deducted == 10 * Overdue + (IF noSmokeAlarm THEN 10 ELSE 0)
                                 + (IF noHvac THEN 5 ELSE 0)
        ds == Breakdown.deductions
        first == IF Overdue > 0 THEN 1 ELSE 0
        second == first + (IF noSmokeAlarm THEN 1 ELSE 0)
    IN  /\ Breakdown.score = Max(0, 100 - deducted)
        /\ Len(ds) = second + (IF noHvac THEN 1 ELSE 0)
        /\ Overdue > 0 => ds[1].points = 10 * Overdue
        /\ noSmokeAlarm => ds[second] = Deduction("No Smoke Alarm Tracked", 10)
        /\ noHvac => ds[Len(ds)] = Deduction("No HVAC System Tracked", 5)
        /\ pointsOf(ds) = deducted

Merged == pc = "done" /\ oracle.kind = "array" /\ ~smartScheduleThrows(rawTasks, oracle)
\* the task the fallback scheduler makes of template t alone
FallbackTaskFor(t) == distributeTasksFallback(<<t>>, 0, now)[1]

\* C22: when no oracle item has the template's title, or the item that has
\* it carries a due date that is no valid date, the task is the fallback
\* scheduler's for that single template: its due date and its category are
\* the fallback's, not the oracle item's.
C22_ItemFallbackIsFallback ==
    Merged =>
        \A i \in 1..Len(rawTasks) :
            ~ValidAnswer(rawTasks[i]) =>
                /\ tasks[i].dueDate = FallbackTaskFor(rawTasks[i]).dueDate
                /\ tasks[i].category = FallbackTaskFor(rawTasks[i]).category

\* the title does not mention smoke, the priority is HIGH and there is a season
HighSeasonal(t) ==
    ~MentionsSmoke(t) /\ t.priority = "HIGH" /\ t.season \in {"Late Spring", "Late Fall"}
\* the seasonal anchor that applies at now
AnchorAt(season) ==
    IF now > DaysAfter(Anchor(season, getFullYear(now)), 30)
    THEN Anchor(season, getFullYear(now) + 1)
    ELSE Anchor(season, getFullYear(now))
\* the load-spread date of position i: the Saturday on or after 2 + (i - 1)
\* weeks from now
SpreadDate(i) == SaturdayOnOrAfter(DaysAfter(now, 7 * (2 + (i - 1))))

\* C23: the fallback scheduler tries its three rules in a fixed order and
\* the first match wins: a title containing "smoke" is due at now + 3 days
\* even with a season; a HIGH template with a season is due at its seasonal
\* anchor; a template is load-spread only when neither rule matched.
C23_RuleOrder ==
    pc = "done" =>
        \A i \in 1..Len(rawTasks) :
            LET t == rawTasks[i]
            IN  /\ MentionsSmoke(t) => DueOf(i) = DaysAfter(now, 3)
                /\ HighSeasonal(t) => DueOf(i) = AnchorAt(t.season)
                /\ IF ~SafetyTemplate(t) /\ t.season = Undefined
                   THEN DueOf(i) = SpreadDate(i)
                   ELSE DueOf(i) = IF SafetyTemplate(t) THEN DaysAfter(now, 3)
                                   ELSE AnchorAt(t.season)

\* a smoke title with a season, a HIGH seasonal template and a general one in
\* one batch: three days, the anchor (which is not three days away), and the
\* Saturday of the fourth week
C23_Witness ==
    /\ pc = "done"
    /\ Len(rawTasks) = 3
    /\ rawTasks[1] = SmokeSeasonal
    /\ rawTasks[2] = DEFAULT_TASKS_HOUSE[15]
    /\ rawTasks[3] = DEFAULT_TASKS_HOUSE[3]
    /\ DueOf(1) = DaysAfter(now, 3)
    /\ DueOf(2) = AnchorAt("Late Fall")
    /\ DueOf(2) # DaysAfter(now, 3)
    /\ DueOf(3) = SpreadDate(3)
    /\ DueOf(3) >= DaysAfter(now, 28)

(***************************************************************************)
(* Further properties of completion                                        *)
(***************************************************************************)
\* the step is a call of handleCompleteTask
CompletionStep == ops' = ops + 1 /\ arg'.op = "complete" /\ prev' = tasks
\* the place of the task the call finds: the first one with the id
PlaceOf(list, id) ==
    CHOOSE p \in 1..Len(list) : list[p].id = id /\ \A q \in 1..(p - 1) : list[q].id # id
\* the fields a recurrence copies from the task it comes from
CopiedFields(t) ==
    <<t.title, t.description, t.importance, t.priority, t.category, t.assetId,
      t.season, t.recurring>>

\* C24: completing a task that is in the collection sets its status to
\* COMPLETED, its completedDate to now and its actualCost to the cost
\* supplied, keeps its place and id, leaves every other task and the assets
\* as they were, and for a recurring task appends at the end a copy with the
\* same title, description, importance, priority, category, assetId, season
\* and recurring flag, its actualCost and completedDate cleared; nothing is
\* appended for a task that does not recur.
C24_CompletionFrame ==
    [][ (CompletionStep /\ \E q \in 1..Len(tasks) : tasks[q].id = arg'.id) =>
          LET p == PlaceOf(tasks, arg'.id)
          IN  /\ Len(tasks') = Len(tasks) + (IF tasks[p].recurring THEN 1 ELSE 0)
              /\ tasks'[p] = [tasks[p] EXCEPT !.status = "COMPLETED",
                                              !.completedDate = toISOString(now),
                                              !.actualCost = arg'.cost]
              /\ \A q \in 1..Len(tasks) : q # p => tasks'[q] = tasks[q]
              /\ assets' = assets
              /\ tasks[p].recurring =>
                    LET copy == tasks'[Len(tasks')]
                    IN  /\ CopiedFields(copy) = CopiedFields(tasks[p])
                        /\ copy.actualCost = UndefinedCost
                        /\ copy.completedDate = NoDate
                        /\ copy.status = "PENDING" ]_vars

\* a recurring task of an asset was completed with a cost while another task
\* and an asset were there: it is COMPLETED in its place, and the copy at the
\* end carries its asset
C24_Witness ==
    /\ arg.op = "complete"
    /\ arg.cost = 25
    /\ Len(assets) > 0
    /\ Len(prev) >= 2
    /\ Len(tasks) = Len(prev) + 1
    /\ \E p \in 1..(Len(prev) - 1) :
          /\ prev[p].id = arg.id
          /\ prev[p].recurring
          /\ prev[p].status = "PENDING"
          /\ prev[p].assetId # Undefined
          /\ tasks[p].status = "COMPLETED"
          /\ tasks[p].actualCost = 25
          /\ tasks[p].completedDate = toISOString(arg.at)
          /\ tasks[Len(tasks)].assetId = prev[p].assetId
          /\ tasks[Len(tasks)].status = "PENDING"

\* the first instant of the month numbered k (12 * year + month, from 0)
FirstOfMonth(k) == At(k \div 12, (k % 12) + 1, 1, 0)
\* the number of days of that month
DaysInMonth(k) == Day(FirstOfMonth(k + 1)) - Day(FirstOfMonth(k))
\* the month the recurrence of the completed task is aimed at
TargetMonth ==
    LET c == CivilFromDays(Day(OldDue))
    IN  c.year * 12 + c.month + IntervalOf(Old)

\* C25: the next due date is the old one advanced by the interval in
\* calendar months, on the same day of the month whenever the target month
\* has that day; an old due date on a 29th, 30th or 31st that the target
\* month lacks gives a date no later than the end of the target month.
\* (Stated for completions before the target month begins, where no
\* re-anchoring applies.)
C25_MonthArithmetic ==
    (Found /\ Old.recurring /\ OldDue # NaN /\ now <= FirstOfMonth(TargetMonth)) =>
        /\ HasSpawn
        /\ IF getDate(OldDue) <= DaysInMonth(TargetMonth)
           THEN SpawnedDue = MonthsLater(OldDue, IntervalOf(Old))
           ELSE SpawnedDue < FirstOfMonth(TargetMonth + 1)

\* the half of C25 about days the target month has
C25_DayPreserved ==
    (Found /\ Old.recurring /\ OldDue # NaN /\ now <= FirstOfMonth(TargetMonth)
       /\ getDate(OldDue) <= DaysInMonth(TargetMonth)) =>
        HasSpawn /\ SpawnedDue = MonthsLater(OldDue, IntervalOf(Old))

\* C28: in the oracle-assisted scheduler every general template that is
\* resolved by the per-item fallback is due on the first Saturday on or
\* after now + 14 days, whatever its place in the batch, so two such
\* templates of one batch share their due date.
C28_ItemFallbackNotSpread ==
    Merged =>
        /\ \A i \in 1..Len(rawTasks) :
              (GeneralTemplate(rawTasks[i]) /\ ~ValidAnswer(rawTasks[i])) =>
                  DueOf(i) = SaturdayOnOrAfter(DaysAfter(now, 14))
        /\ \A i, j \in 1..Len(rawTasks) :
              (/\ GeneralTemplate(rawTasks[i]) /\ ~ValidAnswer(rawTasks[i])
               /\ GeneralTemplate(rawTasks[j]) /\ ~ValidAnswer(rawTasks[j]))
                  => tasks[i].dueDate = tasks[j].dueDate

\* two different general templates, one without an item of the reply and one
\* whose item has no valid date, end up due on the same Saturday
C28_Witness ==
    /\ Merged
    /\ Len(rawTasks) = 2
    /\ rawTasks[1] # rawTasks[2]
    /\ GeneralTemplate(rawTasks[1]) /\ GeneralTemplate(rawTasks[2])
    /\ AnswerTo(rawTasks[1]) = 0
    /\ AnswerTo(rawTasks[2]) # 0 /\ ~ValidAnswer(rawTasks[2])
    /\ DueOf(1) = DueOf(2)
    /\ getDay(DueOf(2)) = 6
    /\ DueOf(2) >= DaysAfter(now, 14)
    /\ DueOf(2) < DaysAfter(now, 21)

\* C27: over any sequence of completion calls a task instance spawns at most
\* one recurrence: a completion call for a task that is COMPLETED already
\* appends no task and leaves its completedDate and actualCost as they are.
C27_CompleteOnce ==
    [][ (CompletionStep /\ \E q \in 1..Len(tasks) : tasks[q].id = arg'.id) =>
          LET p == PlaceOf(tasks, arg'.id)
          IN  tasks[p].status = "COMPLETED" =>
                /\ Len(tasks') = Len(tasks)
                /\ tasks'[p].completedDate = tasks[p].completedDate
                /\ tasks'[p].actualCost = tasks[p].actualCost ]_vars

\* the asset the task refers to is in the asset collection
AssetPresent(t) == \E a \in 1..Len(assets) : assets[a].id = t.assetId

\* C29: after any sequence of add-asset, complete, update, delete-task and
\* delete-asset operations every task that carries an assetId refers to an
\* asset of the asset collection; no task, a spawned recurrence included,
\* outlives its asset.
C29_NoOrphanTasks ==
    \A i \in 1..Len(tasks) : tasks[i].assetId # Undefined => AssetPresent(tasks[i])

(***************************************************************************)
(* Properties of onboarding and of the stored score                        *)
(***************************************************************************)
\* the stored score is the score the breakdown computes
ScoreInSync == userState.score = getScoreBreakdown(tasks, assets, userState).score

\* C21: while the user is onboarded, whenever the stored score differs from
\* the score computed from the current tasks and assets (after a change of
\* either, or after onboarding has stored 100) it eventually equals it: no
\* sequence of operations leaves it different for ever.
C21_ScoreConverges ==
    (userState.isOnboarded /\ ~ScoreInSync) ~> ScoreInSync

\* the stored score stood at 100 with a smoke alarm tracked; the alarm was
\* deleted, and the effect has brought the score down to what a CONDO without
\* one scores
C21_Witness ==
    /\ userState.isOnboarded
    /\ userState.homeType = "CONDO"
    /\ arg.op = "deleteAsset"
    /\ Len(assets) = 0
    /\ pc # "effect"
    /\ userState.score = 90
    /\ ScoreInSync

\* the step resumes a suspended handleOnboarding call
CallResumes == Len(calls') < Len(calls)
\* the collection holds one task for each template, in the catalogue's order
ScheduleOf(list, templates) ==
    /\ Len(list) = Len(templates)
    /\ \A i \in 1..Len(templates) : list[i].title = templates[i].title

C26_BothComplete == (Len(calls) > 1) ~> (Len(calls) = 0)

StarterTemplates(type) ==
    IF type = "CONDO" THEN DEFAULT_TASKS_CONDO ELSE DEFAULT_TASKS_HOUSE
\* the step is a call of handleOnboarding with a blank location
BlankAttempt == ops' = ops + 1 /\ arg'.op = "onboard" /\ Blank(arg'.location)
\* every onboarding has ended: the user is onboarded, the spinner is off and
\* the collection holds one task for each starter template of the home type
OnboardingEnded ==
    /\ Len(calls) = 0
    /\ userState.isOnboarded
    /\ ~isProcessing
    /\ ScheduleOf(tasks, StarterTemplates(userState.homeType))

\* C30: every onboarding started with a location that is not blank ends in
\* the end with isOnboarded true, isProcessing false and one task for each
\* starter template, whether the oracle call returns a schedule, returns
\* something else or throws (the call being assumed to settle); and an
\* attempt with a blank location changes nothing.
C30_OnboardingEnds ==
    /\ (Len(calls) > 0) ~> OnboardingEnded
    /\ [][ BlankAttempt =>
             UNCHANGED <<tasks, assets, userState, isProcessing, calls,
                         selectedTask, editForm>> ]_vars

\* a HOUSE onboarding whose oracle call returned text that is no JSON, after
\* one attempt with a location of spaces: onboarded, the spinner off, 22 tasks
C30_Witness ==
    /\ OnboardingEnded
    /\ ops = 1
    /\ Len(assets) = 0
    /\ oracle.kind = "notjson"
    /\ userState.homeType = "HOUSE"
    /\ userState.location = "Toronto"
    /\ Len(tasks) = 22

====
